---- MODULE Spec2Model ----
(***************************************************************************)
(* Model of the event ingestion and scheduling pipeline of dev-manager:    *)
(*   services/watcher_service.py      _ProjectEventHandler, WatcherService *)
(*   services/event_processor.py      EventProcessor                       *)
(*   services/productivity_service.py ProductivityService                  *)
(*   utils/background_tasks.py        sweep_idle_sessions_task             *)
(*   routers/sessions.py              close_session                        *)
(*   routers/projects.py              register_project, deactivate_project *)
(*   core/project_detector.py         detect_project_type                  *)
(*   main.py                          lifespan                             *)
(*                                                                         *)
(* The specifications of the module:                                       *)
(*   Spec         watcher thread, timer threads, queue, consumer receive   *)
(*   SpecFilter   Spec with notifications of ignored paths                 *)
(*   SpecFlush    Spec with fair threads and a clock that reaches every    *)
(*                timer deadline                                           *)
(*   SpecSession  consumer task and idle sweeper on ProductivityService    *)
(*   SpecApi      consumer task and the close route on ProductivityService *)
(*   SpecManual   SpecSession and the close route together                 *)
(*   SpecCommit   the auto-commit timers of EventProcessor, the shutdown   *)
(*   SpecAttempt  the commit attempts started by the timers, step by step *)
(*   SpecOverlap  SpecAttempt with the clock going from deadline to        *)
(*                deadline, over two delays                                *)
(*   SpecDeactivate  SpecAttempt with projects being deactivated           *)
(*   SpecCalc     the end of close_session and _compute_metrics alone      *)
(*   SpecDetect   detect_project_type alone                                *)
(*   SpecWatch    watch_project, unwatch_project, Observer dispatch, the   *)
(*                handlers sending and the consumer receiving              *)
(*   SpecRegister the register and deactivate routes, Observer dispatch    *)
(*   SpecLoop     the consumer loop alone, projects being deactivated      *)
(*   SpecRun      the consumer loop step by step inside Queue.get, the     *)
(*                flush threads sending, the shutdown                      *)
(*   SpecRunFair  SpecRun with the event loop resuming its tasks           *)
(* Time is a discrete clock of one unit per second (Spec, SpecCommit) or   *)
(* per minute (SpecSession, SpecApi).                                      *)
(***************************************************************************)
EXTENDS Integers, Sequences, FiniteSets, TLC

VARIABLES
    \* ---- watcher domain (threads) ----
    now,        \* wall clock, seconds
    buffer,     \* handler -> _ProjectEventHandler._buffer
    lock,       \* handler -> owner of _ProjectEventHandler._lock (0 = free)
    timerRef,   \* handler -> _ProjectEventHandler._timer (0 = None)
    timers,     \* sequence of threading.Timer objects ever started
    pushPc,     \* position of the watchdog dispatcher thread inside _push
    pushH,      \* handler the dispatcher thread is pushing to
    pushEntry,  \* the entry dict built by _push before it takes the lock
    nPush,      \* number of _push calls so far (gives entries an identity)
    lastPush,   \* handler -> time of the latest _push that reset the timer
    pushResult, \* what the latest completed _push did: appended / skipped
                \* / ignored
    flushed,    \* every batch a _flush has taken out of a buffer, in order,
                \* with the time that had passed since the latest _push
    queue,      \* WatcherService._queue
    received,   \* what consume_events has returned, in order
    \* ---- asyncio domain: ProductivityService, database, tasks ----
    active,     \* ProductivityService._active_sessions: key -> id (0 = absent)
    lastAct,    \* ProductivityService._last_activity: key -> time
    actOrder,   \* insertion order of the keys of _last_activity
    sessFiles,  \* ProductivityService._session_files: key -> set of paths
    dbSess,     \* table work_sessions as committed, indexed by id
    pc,         \* task -> the await it is suspended at
    loc,        \* task -> its local variables
    uow,        \* task -> its AsyncSession: rows as loaded and as assigned
    nBatch,     \* batches put on the queue so far
    nSweep,     \* sweeps started so far
    nApi,       \* close requests made so far
    nFail,      \* collaborator failures so far
    sweepLog,   \* every close_session call made by a sweep, with the time
                \* since the key's last activity at the call
    \* ---- asyncio domain: the auto-commit timers of EventProcessor ----
    commitTimers, \* EventProcessor._commit_timers: key -> handle (0 = absent)
    handles,      \* sequence of the asyncio.TimerHandle objects ever created
    lastSched,    \* key -> time of the latest _schedule_commit call
    attempts,     \* every _execute_commit a timer callback has started, with
                  \* the time since the key's latest _schedule_commit
    nSched,       \* direct _schedule_commit calls so far
    \* ---- WatcherService: registration of directories ----
    registered, \* WatcherService._handlers: key -> handler (0 = absent)
    watches,    \* the handlers scheduled on the Observer, each with its key
                \* and its _buffer, in the order of their creation
    watchRet,   \* the latest watch_project call: its number, its arguments
                \* (the key, whether the path is a directory) and what it
                \* returned
    nWatch,     \* watch_project and unwatch_project calls so far
    nNotify,    \* filesystem notifications dispatched so far
    \* ---- the consumer loop and the tables it reads and writes ----
    projActive, \* table projects as committed: key -> is_active
    dbEvents,   \* table file_events as committed: key -> number of rows
    pendEvents, \* FileEvent rows added to the consumer's session, uncommitted
    batchStart, \* what the tracker and the timer table held for the key of
                \* the batch in work when that batch was received
    \* ---- the life cycle of the tasks ----
    getter,     \* where the consumer is inside queue.get(): "none" outside
                \* of it, "checked" when it saw the queue empty, "waiting"
                \* with its getter future in _getters, "woken" when that
                \* future has its result set
    stopping,   \* the shutdown of lifespan has cancelled the tasks
    nTaken,     \* batches the consumer has taken from the queue so far
    liveAtStop, \* the commit timer handles that were live at the shutdown
    \* ---- the commit attempts and their database rows ----
    dbMarked,   \* key -> how many of the FileEvent rows of the key have
                \* committed = True (the rows are marked oldest first)
    dbCommits,  \* the CommitRecord rows, in order
    \* ---- the productivity metrics ----
    dbMetrics,  \* table productivity_metrics as committed, in order
    incLog,     \* every increment_commit_count call, with the session the
                \* index held for its key at the call
    sessPaths,  \* id -> the paths of the observe_activity calls that created
                \* the session with that id or found it in the index
    calc,       \* a WorkSession handed to _compute_metrics on its own, and
                \* the ProductivityMetric made from it
    \* ---- core/project_detector.py ----
    detect      \* a path handed to detect_project_type: what is at the
                \* path, the files below it, and the type returned

bufVars == <<now, buffer, lock, timerRef, timers, pushPc, pushH, pushEntry,
             nPush, lastPush, pushResult, flushed, queue, received>>

sessVars == <<active, lastAct, actOrder, sessFiles, dbSess, pc, loc, uow,
              nBatch, nSweep, nApi, nFail, sweepLog>>

commitVars == <<commitTimers, handles, lastSched, attempts, nSched>>

watchVars == <<registered, watches, watchRet, nWatch, nNotify>>

loopVars == <<projActive, dbEvents, pendEvents, batchStart>>

runVars == <<getter, stopping, nTaken, liveAtStop>>

attemptVars == <<dbMarked, dbCommits>>

metricVars == <<dbMetrics, incLog, sessPaths, calc, detect>>

vars == <<bufVars, sessVars, commitVars, watchVars, loopVars, runVars,
          attemptVars, metricVars>>

\* ------------------------------------------------------------------------
\* Bounds and program constants
\* ------------------------------------------------------------------------
MaxPush == 2
MaxTime == 6
MaxBatch == 3
MaxSweep == 1
MaxApi == 1
MaxFail == 1
MaxClock == 2
MaxSched == 3
MaxCommitTime == 32
MaxWatch == 3
MaxNotify == 2
MaxInc == 1
MaxOverlapTime == 60
MaxMinutes == 30
MaxFiles == 10
MaxCommits == 2
DEBOUNCE_SECONDS == 3

Handlers == {"h1"}
HandlerKey == [h \in Handlers |-> "k1"]
Paths == {"a.py", "b.py"}

\* paths below ignored directories or with the names of the ignore lists
IgnorablePaths == {"a.pyc", "node_modules/m.js", ".DS_Store"}

\* Path(event.src_path).parts below the project directory: the components
\* of the path, each one given as the pieces between its dots
Parts(p) ==
    CASE p = "a.py" -> << <<"a", "py">> >>
      [] p = "b.py" -> << <<"b", "py">> >>
      [] p = "a.pyc" -> << <<"a", "pyc">> >>
      [] p = "node_modules/m.js" -> << <<"node_modules">>, <<"m", "js">> >>
      [] p = ".DS_Store" -> << <<"", "DS_Store">> >>

\* IGNORED_EXTENSIONS and IGNORED_DIRS of Settings (some of the defaults),
\* an extension given as the piece after its dot
IgnoredExtensions == {"pyc", "swp", "DS_Store"}
IgnoredDirs == {<<"node_modules">>, <<"", "git">>, <<"dist">>}

\* PurePath.suffix of the final component: the piece after the last dot,
\* when that dot is neither the first nor the last character of the name
Suffix(name) ==
    IF /\ Len(name) >= 2
       /\ name[Len(name)] # ""
       /\ (Len(name) > 2 \/ name[1] # "")
       THEN name[Len(name)] ELSE ""

\* _push: src_path.suffix in self.ignored_extensions, or
\* set(src_path.parts) & self.ignored_dirs
Ignored(p) ==
    \/ Suffix(Parts(p)[Len(Parts(p))]) \in IgnoredExtensions
    \/ \E i \in 1..Len(Parts(p)) : Parts(p)[i] \in IgnoredDirs
Kinds == {"created", "modified"}

\* ------------------------------------------------------------------------
\* _ProjectEventHandler
\* ------------------------------------------------------------------------

\* a dedup test that looks at the path alone
AlreadyByPath(buf, entry) ==
    \E i \in 1..Len(buf) : buf[i].file_path = entry.file_path

\* the dedup test of _push: same path and same type already buffered
Already(buf, entry) ==
    \E i \in 1..Len(buf) :
        /\ buf[i].file_path = entry.file_path
        /\ buf[i].event_type = entry.event_type

\* a handler whose lock excludes nobody
LockFreeNoMutex(h) == TRUE

\* `with self._lock:` can be entered by a thread when nobody holds the lock
LockFree(h) == lock[h] = 0

\* threading.Timer.is_alive(): the timer thread was started and has not ended
IsAlive(t) == timers[t].st \in {"waiting", "fired", "copied", "handoff"}

\* threading.Timer.cancel(): stops the timer only while it is still waiting
Cancelled(tms, t) ==
    IF tms[t].st = "waiting"
       THEN [tms EXCEPT ![t].st = "cancelled", ![t].deadline = 0]
       ELSE tms

\* a reset that cancels the current timer and starts none
CancelTimerOnly(h) ==
    LET old == timerRef[h] IN
    /\ timers' = IF old # 0 /\ IsAlive(old) THEN Cancelled(timers, old)
                                             ELSE timers
    /\ timerRef' = timerRef

\* _reset_timer: cancel the current timer if alive, start a new one
ResetTimer(h) ==
    LET old == timerRef[h]
        tms == IF old # 0 /\ IsAlive(old) THEN Cancelled(timers, old) ELSE timers
        new == [h |-> h, deadline |-> now + DEBOUNCE_SECONDS, st |-> "waiting",
                batch |-> <<>>]
    IN /\ timers' = Append(tms, new)
       /\ timerRef' = [timerRef EXCEPT ![h] = Len(timers) + 1]

\* _push up to the lock: on_created / on_modified ... build the entry dict
PushStart(h, p, kind) ==
    /\ pushPc = "idle"
    /\ nPush < MaxPush
    /\ pushH' = h
    /\ nPush' = nPush + 1
    /\ pushEntry' = [id |-> nPush + 1, file_path |-> p, event_type |-> kind,
                     occurred_at |-> now]
    /\ IF Ignored(p)
          THEN /\ pushPc' = "idle"
               /\ pushResult' = "ignored"
          ELSE /\ pushPc' = "wantlock"
               /\ pushResult' = pushResult
    /\ UNCHANGED <<now, buffer, lock, timerRef, timers, lastPush, flushed,
                   queue, received>>
    /\ UNCHANGED <<sessVars, commitVars, watchVars, runVars, attemptVars,
                   metricVars, loopVars>>

\* _push inside the lock: dedup, append, _reset_timer, release
PushLocked ==
    /\ pushPc = "wantlock"
    /\ LockFree(pushH)
    /\ IF Already(buffer[pushH], pushEntry)
          THEN /\ buffer' = buffer
               /\ pushResult' = "skipped"
          ELSE /\ buffer' = [buffer EXCEPT ![pushH] = Append(@, pushEntry)]
               /\ pushResult' = "appended"
    /\ ResetTimer(pushH)
    /\ lastPush' = [lastPush EXCEPT ![pushH] = now]
    /\ pushPc' = "idle"
    /\ UNCHANGED <<now, lock, pushH, pushEntry, nPush, flushed, queue,
                   received>>
    /\ UNCHANGED <<sessVars, commitVars, watchVars, runVars, attemptVars,
                   metricVars, loopVars>>

\* threading.Timer.run: the interval has passed and cancel() was not called
TimerFire(t) ==
    /\ timers[t].st = "waiting"
    /\ now >= timers[t].deadline
    /\ timers' = [timers EXCEPT ![t].st = "fired"]
    /\ UNCHANGED <<now, buffer, lock, timerRef, pushPc, pushH, pushEntry,
                   nPush, lastPush, pushResult, flushed, queue, received>>
    /\ UNCHANGED <<sessVars, commitVars, watchVars, runVars, attemptVars,
                   metricVars, loopVars>>

\* a test that takes every buffer for a filled one
BufferEmptyNever(buf) == FALSE

\* _flush: `not self._buffer`
BufferEmpty(buf) == buf = <<>>

\* _flush: take the lock; empty buffer -> return; else batch = list(buffer)
FlushCopy(t) ==
    LET h == timers[t].h IN
    /\ timers[t].st = "fired"
    /\ LockFree(h)
    /\ IF BufferEmpty(buffer[h])
          THEN /\ timers' = [timers EXCEPT ![t].st = "done", ![t].deadline = 0]
               /\ UNCHANGED <<lock, flushed>>
          ELSE /\ timers' = [timers EXCEPT ![t].st = "copied",
                                           ![t].batch = buffer[h]]
               /\ lock' = [lock EXCEPT ![h] = t]
               /\ flushed' = Append(flushed,
                                    [h |-> h, batch |-> buffer[h],
                                     quiet |-> now - lastPush[h]])
    /\ UNCHANGED <<now, buffer, timerRef, pushPc, pushH, pushEntry, nPush,
                   lastPush, pushResult, queue, received>>
    /\ UNCHANGED <<sessVars, commitVars, watchVars, runVars, attemptVars,
                   metricVars, loopVars>>

\* _flush: self._buffer.clear() and leave the `with` block
FlushClear(t) ==
    LET h == timers[t].h IN
    /\ timers[t].st = "copied"
    /\ buffer' = [buffer EXCEPT ![h] = <<>>]
    /\ lock' = [lock EXCEPT ![h] = IF @ = t THEN 0 ELSE @]
    /\ timers' = [timers EXCEPT ![t].st = "handoff"]
    /\ UNCHANGED <<now, timerRef, pushPc, pushH, pushEntry, nPush, lastPush,
                   pushResult, flushed, queue, received>>
    /\ UNCHANGED <<sessVars, commitVars, watchVars, runVars, attemptVars,
                   metricVars, loopVars>>

\* ------------------------------------------------------------------------
\* WatcherService
\* ------------------------------------------------------------------------

\* WatcherService.__init__: asyncio.Queue() is built without a maxsize,
\* which is maxsize 0
QueueMaxsize == 0

\* Queue.full(): a maxsize of 0 or less never is full
Full(q) == IF QueueMaxsize <= 0 THEN FALSE ELSE Len(q) >= QueueMaxsize

\* _sync_flush_callback: put_nowait appends the pair, or raises QueueFull
\* on a full queue; the except branch logs a warning and returns
SyncFlushCallback(q, project_id, batch) ==
    IF Full(q) THEN q ELSE Append(q, <<project_id, batch>>)

\* _flush: self._on_flush(self.project_id, batch), outside the lock
FlushHandoff(t) ==
    /\ timers[t].st = "handoff"
    /\ queue' = SyncFlushCallback(queue, HandlerKey[timers[t].h], timers[t].batch)
    /\ timers' = [timers EXCEPT ![t].st = "done", ![t].deadline = 0,
                                ![t].batch = <<>>]
    /\ UNCHANGED <<now, buffer, lock, timerRef, pushPc, pushH, pushEntry,
                   nPush, lastPush, pushResult, flushed, received>>
    /\ UNCHANGED <<sessVars, commitVars, watchVars, runVars, attemptVars,
                   metricVars, loopVars>>

\* a get that takes the pair put last
GetNowaitLast(q) == [item |-> q[Len(q)], rest |-> SubSeq(q, 1, Len(q) - 1)]

\* Queue.get_nowait on a non-empty queue: the pair put first, and the
\* queue without it
GetNowait(q) == [item |-> Head(q), rest |-> Tail(q)]

\* consume_events: await self._queue.get(), as called by EventProcessor.run
ConsumeEvents ==
    /\ queue # <<>>
    /\ received' = Append(received,
                          [key |-> GetNowait(queue).item[1],
                           batch |-> GetNowait(queue).item[2],
                           at |-> now])
    /\ queue' = GetNowait(queue).rest
    /\ UNCHANGED <<now, buffer, lock, timerRef, timers, pushPc, pushH,
                   pushEntry, nPush, lastPush, pushResult, flushed>>
    /\ UNCHANGED <<sessVars, commitVars, watchVars, runVars, attemptVars,
                   metricVars, loopVars>>

\* one second passes; a timer whose interval is over wakes before more time passes
Tick ==
    /\ now < MaxTime
    /\ \A t \in 1..Len(timers) :
           timers[t].st = "waiting" => now < timers[t].deadline
    /\ now' = now + 1
    /\ UNCHANGED <<buffer, lock, timerRef, timers, pushPc, pushH, pushEntry,
                   nPush, lastPush, pushResult, flushed, queue, received>>
    /\ UNCHANGED <<sessVars, commitVars, watchVars, runVars, attemptVars,
                   metricVars, loopVars>>

InitBuf ==
    /\ now = 0
    /\ buffer = [h \in Handlers |-> <<>>]
    /\ lock = [h \in Handlers |-> 0]
    /\ timerRef = [h \in Handlers |-> 0]
    /\ timers = <<>>
    /\ pushPc = "idle"
    /\ pushH = "h1"
    /\ pushEntry = [id |-> 0, file_path |-> "a.py", event_type |-> "created",
                    occurred_at |-> 0]
    /\ nPush = 0
    /\ lastPush = [h \in Handlers |-> 0]
    /\ pushResult = "none"
    /\ flushed = <<>>
    /\ queue = <<>>
    /\ received = <<>>

\* ------------------------------------------------------------------------
\* Database session (AsyncSessionLocal) and table work_sessions
\* ------------------------------------------------------------------------
Keys == {"k1", "k2"}
Tasks == {"consumer", "sweeper", "api"}

\* the batches the watcher may flush: lists of entry dicts
BatchChoices ==
    { <<[file_path |-> "a.py", event_type |-> "modified"]>>,
      <<[file_path |-> "a.py", event_type |-> "modified"],
        [file_path |-> "b.py", event_type |-> "created"]>> }

NoTime == 0 - 1
NoRows == [i \in {} |-> 0]
NoLocals == [key |-> "k1", paths |-> <<>>, sid |-> 0, ret |-> 0, t |-> 0,
             idle |-> <<>>, closed |-> <<>>, req |-> 0]
\* an AsyncSession without objects: nothing loaded, nothing assigned, no
\* ProductivityMetric added
EmptyUow == [orig |-> NoRows, cur |-> NoRows, metrics |-> <<>>]

\* a row of work_sessions that was given an id but is not committed
AbsentRow == [project_id |-> "k1", status |-> "absent", started_at |-> NoTime,
              ended_at |-> NoTime, active_minutes |-> 0, files_touched |-> 0,
              commits_made |-> 0]

\* WorkSession(project_id, status=ACTIVE, started_at=now, files_touched=n);
\* commits_made has the column default 0
NewSession(k, t, n) ==
    [project_id |-> k, status |-> "active", started_at |-> t,
     ended_at |-> NoTime, active_minutes |-> 0, files_touched |-> n,
     commits_made |-> 0]

\* select(WorkSession).where(id == sid) in the session of task T:
\* TRUE when scalar_one_or_none() gives a row
Found(T, sid) ==
    \/ sid \in DOMAIN uow[T].cur
    \/ sid \in 1..Len(dbSess) /\ dbSess[sid].status # "absent"

\* the unit of work after that select: an object already in the identity
\* map is kept as it is, another one is loaded from the committed table
Loaded(T, sid) ==
    IF sid \in DOMAIN uow[T].cur THEN uow[T]
    ELSE [orig |-> (sid :> dbSess[sid]) @@ uow[T].orig,
          cur  |-> (sid :> dbSess[sid]) @@ uow[T].cur,
          metrics |-> uow[T].metrics]

\* the UPDATE a flush emits for a loaded object carries the attributes whose
\* value differs from the loaded one
Updated(row, orig, cur) ==
    [f \in DOMAIN row |-> IF cur[f] # orig[f] THEN cur[f] ELSE row[f]]

\* db.commit(): INSERTed and UPDATEd rows become the committed table
Committed(T) ==
    [i \in 1..Len(dbSess) |->
        IF i \notin DOMAIN uow[T].cur THEN dbSess[i]
        ELSE IF i \in DOMAIN uow[T].orig
                THEN Updated(dbSess[i], uow[T].orig[i], uow[T].cur[i])
                ELSE uow[T].cur[i]]

\* ------------------------------------------------------------------------
\* EventProcessor: the auto-commit timers
\* ------------------------------------------------------------------------
AUTO_COMMIT_DEBOUNCE == 30

\* a cancel that leaves every handle as it is
CancelNothing(hs, existing) == hs

\* existing = self._commit_timers.pop(project_id, None); if existing:
\* existing.cancel(): a TimerHandle whose callback has not run yet will not
\* run it
CancelHandle(hs, existing) ==
    IF existing # 0 /\ hs[existing].st = "scheduled"
       THEN [hs EXCEPT ![existing] = [@ EXCEPT !.st = "cancelled", !.at = 0]]
       ELSE hs

\* _schedule_commit(project_id, project): cancel the handle stored for the
\* key, call_later(_AUTO_COMMIT_DEBOUNCE, ...) at time now, store the handle
ScheduleCommit(k) ==
    LET hs == CancelHandle(handles, commitTimers[k]) IN
    /\ handles' = Append(hs, [key |-> k, at |-> now, st |-> "scheduled"])
    /\ commitTimers' = [commitTimers EXCEPT ![k] = Len(hs) + 1]
    /\ lastSched' = [lastSched EXCEPT ![k] = now]

\* ------------------------------------------------------------------------
\* ProductivityService
\* ------------------------------------------------------------------------

\* close_session: session.active_minutes = max(0.0, duration_minutes)
ActiveMinutes(duration) == IF duration > 0 THEN duration ELSE 0

\* _compute_metrics: hours = max(session.active_minutes / 60.0, 0.001), as
\* the fraction num/den; active_minutes is a whole number of minutes here
MinutesPerHour == 60
MinHoursDen == 1000
Hours(active_minutes) ==
    IF active_minutes * MinHoursDen >= MinutesPerHour
       THEN [num |-> active_minutes, den |-> MinutesPerHour]
       ELSE [num |-> 1, den |-> MinHoursDen]

\* session.files_touched / hours and session.commits_made / hours
PerHour(n, hours) == [num |-> n * hours.den, den |-> hours.num]

\* a rounding that cuts the digits off
RoundDown(q) == (q.num * 100) \div q.den

\* round(x, 2): the nearest multiple of 0.01, a tie going to the even one;
\* the result is given in hundredths
Round2(q) ==
    LET n == q.num * 100
        fl == n \div q.den
        r == n % q.den
    IN IF 2 * r > q.den THEN fl + 1
       ELSE IF 2 * r < q.den THEN fl
       ELSE IF fl % 2 = 0 THEN fl ELSE fl + 1

\* _compute_metrics(session, db): the ProductivityMetric that db.add gets
ComputeMetrics(session, sid) ==
    [session_id |-> sid,
     files_per_hour |->
         Round2(PerHour(session.files_touched, Hours(session.active_minutes))),
     commits_per_hour |->
         Round2(PerHour(session.commits_made, Hours(session.active_minutes)))]

\* db.commit() of task T: the ProductivityMetric rows it added are INSERTed
CommittedMetrics(T) == dbMetrics \o uow[T].metrics

\* increment_commit_count(project_id): the body is `pass`
IncrementCommitCount(k) ==
    /\ Len(incLog) < MaxInc
    /\ incLog' = Append(incLog, [key |-> k, sid |-> active[k]])
    /\ UNCHANGED <<bufVars, sessVars, commitVars, watchVars, loopVars,
                   runVars, attemptVars, dbMetrics, sessPaths, calc, detect>>

\* a lookup that never finds the key
ActiveGetNone(k) == 0

\* self._active_sessions.get(project_id)
ActiveGet(k) == active[k]

\* file_paths of a batch, as _process_batch collects them
FilePaths(batch) == [i \in 1..Len(batch) |-> batch[i].file_path]

\* an update of the touched-file set that adds nothing
PathSetNone(paths) == {}

\* the paths that _session_files[project_id].update(file_paths) adds
PathSet(paths) == {paths[i] : i \in 1..Len(paths)}

\* sweep_idle_sessions: the keys of _last_activity, in dict order, that are
\* idle longer than the timeout and have an active session
IdleTimeout == 1

RECURSIVE IdleProjects(_)
IdleProjects(order) ==
    IF order = <<>> THEN <<>>
    ELSE LET k == Head(order) IN
         IF (now - lastAct[k]) > IdleTimeout /\ active[k] # 0
            THEN <<k>> \o IdleProjects(Tail(order))
            ELSE IdleProjects(Tail(order))

\* the for loop of sweep_idle_sessions up to its next await: close_session of
\* a key without an index entry returns None at once
RECURSIVE SkipClosed(_, _)
SkipClosed(idle, act) ==
    IF idle = <<>> THEN <<>>
    ELSE IF act[Head(idle)] = 0 THEN SkipClosed(Tail(idle), act)
    ELSE idle

bufRest == <<buffer, lock, timerRef, timers, pushPc, pushH, pushEntry, nPush,
             lastPush, pushResult, flushed, received>>

\* a lookup that takes every project for an active one
ProjectFoundAlways(k) == TRUE

\* project = select(Project) ...; `not project or not project.is_active`
\* is false
ProjectFound(k) == projActive[k]

\* no batch is in work
NoBatch == [key |-> "", active |-> 0, lastAct |-> NoTime, files |-> {},
            timer |-> 0, handles |-> <<>>]

\* the state of the tracker and of the timer table for key k
TrackerOf(k) == [key |-> k, active |-> active[k], lastAct |-> lastAct[k],
                 files |-> sessFiles[k], timer |-> commitTimers[k],
                 handles |-> handles]

\* EventProcessor.run with the queue holding q: project_id, batch = await
\* consume_events() takes the head; _process_batch selects the project:
\* without an active one it returns and run is at the top of its loop
\* again; else it adds the FileEvents and awaits db.flush()
TakeBatch(q) ==
    LET key == GetNowait(q).item[1]
        batch == GetNowait(q).item[2]
    IN
    /\ pc["consumer"] = "recv"
    /\ getter = "none"
    /\ ~stopping
    /\ q # <<>>
    /\ queue' = GetNowait(q).rest
    /\ nTaken' = nTaken + 1
    /\ uow' = [uow EXCEPT !["consumer"] = EmptyUow]
    /\ IF ProjectFound(key)
          THEN /\ loc' = [loc EXCEPT !["consumer"] =
                             [NoLocals EXCEPT !.key = key,
                                              !.paths = FilePaths(batch)]]
               /\ pendEvents' = Len(batch)
               /\ batchStart' = TrackerOf(key)
               /\ pc' = [pc EXCEPT !["consumer"] = "p_flush"]
          ELSE /\ loc' = [loc EXCEPT !["consumer"] = NoLocals]
               /\ UNCHANGED <<pendEvents, batchStart, pc>>
    /\ UNCHANGED <<commitVars, now, watchVars, bufRest, projActive, dbEvents,
                   active, lastAct, actOrder, sessFiles, dbSess, nSweep, nApi,
                   nFail, sweepLog, getter, stopping, liveAtStop, attemptVars,
                   metricVars>>

\* a batch for key k is flushed into the queue the consumer waits on, the
\* consumer is woken and takes the batch at the head
RunReceive(k, batch) ==
    /\ nBatch < MaxBatch
    /\ nBatch' = nBatch + 1
    /\ TakeBatch(SyncFlushCallback(queue, k, batch))

\* _process_batch: the flush is done; observe_activity runs up to its first
\* await: the flush of a new session, or the select of the indexed one
ObserveCall ==
    LET k == loc["consumer"].key
        paths == loc["consumer"].paths
        sid == ActiveGet(k)
    IN
    /\ pc["consumer"] = "p_flush"
    /\ ~stopping
    /\ lastAct' = [lastAct EXCEPT ![k] = now]
    /\ actOrder' = IF lastAct[k] = NoTime THEN Append(actOrder, k) ELSE actOrder
    /\ sessFiles' = [sessFiles EXCEPT ![k] = @ \cup PathSet(paths)]
    /\ loc' = [loc EXCEPT !["consumer"].sid = sid, !["consumer"].t = now]
    /\ pc' = [pc EXCEPT !["consumer"] = IF sid = 0 THEN "o_create" ELSE "o_select"]
    /\ sessPaths' = IF sid = 0 THEN sessPaths
                     ELSE [sessPaths EXCEPT ![sid] = @ \cup PathSet(paths)]
    /\ UNCHANGED <<commitVars, now, runVars, attemptVars, dbMetrics, incLog,
                   calc, detect, loopVars, watchVars, bufRest, queue, active, dbSess,
                   uow, nBatch, nSweep, nApi, nFail, sweepLog>>

\* observe_activity: the INSERT of the new session is flushed and gave it
\* its id; the index is set, the id returned; _process_batch awaits commit
ObserveCreated ==
    LET k == loc["consumer"].key
        id == Len(dbSess) + 1
    IN
    /\ pc["consumer"] = "o_create"
    /\ ~stopping
    /\ dbSess' = Append(dbSess, AbsentRow)
    /\ uow' = [uow EXCEPT !["consumer"].cur =
                  (id :> NewSession(k, loc["consumer"].t,
                                    Len(loc["consumer"].paths))) @@ @]
    /\ active' = [active EXCEPT ![k] = id]
    /\ loc' = [loc EXCEPT !["consumer"].ret = id]
    /\ pc' = [pc EXCEPT !["consumer"] = "p_commit"]
    /\ sessPaths' = Append(sessPaths, PathSet(loc["consumer"].paths))
    /\ UNCHANGED <<commitVars, now, runVars, attemptVars, dbMetrics, incLog,
                   calc, detect, loopVars, watchVars, bufRest, queue, lastAct,
                   actOrder, sessFiles, nBatch, nSweep, nApi, nFail,
                   sweepLog>>

\* observe_activity: the select of the indexed session is done; a row that
\* is there gets files_touched and status assigned; db.flush() is awaited,
\* the id returned, and _process_batch awaits db.commit()
ObserveSelected ==
    LET k == loc["consumer"].key
        sid == loc["consumer"].sid
        u == Loaded("consumer", sid)
    IN
    /\ pc["consumer"] = "o_select"
    /\ ~stopping
    /\ IF Found("consumer", sid)
          THEN /\ uow' = [uow EXCEPT !["consumer"] =
                             [u EXCEPT !.cur[sid].files_touched =
                                            Cardinality(sessFiles[k]),
                                       !.cur[sid].status = "active"]]
          ELSE /\ uow' = uow
    /\ pc' = [pc EXCEPT !["consumer"] = "p_commit"]
    /\ loc' = [loc EXCEPT !["consumer"].ret = sid]
    /\ UNCHANGED <<commitVars, now, runVars, attemptVars, metricVars,
                   loopVars, watchVars, bufRest, queue, active, lastAct,
                   actOrder, sessFiles, dbSess, nBatch, nSweep, nApi, nFail,
                   sweepLog>>

\* _process_batch: db.commit() succeeded; _schedule_commit is called and
\* run goes back to consume_events
ProcCommitted ==
    /\ pc["consumer"] = "p_commit"
    /\ ~stopping
    /\ dbSess' = Committed("consumer")
    /\ dbEvents' = [dbEvents EXCEPT ![loc["consumer"].key] = @ + pendEvents]
    /\ pendEvents' = 0
    /\ batchStart' = NoBatch
    /\ ScheduleCommit(loc["consumer"].key)
    /\ uow' = [uow EXCEPT !["consumer"] = EmptyUow]
    /\ loc' = [loc EXCEPT !["consumer"] = NoLocals]
    /\ pc' = [pc EXCEPT !["consumer"] = "recv"]
    /\ dbMetrics' = CommittedMetrics("consumer")
    /\ UNCHANGED <<attempts, nSched, now, watchVars, bufRest, queue,
                   projActive, active, lastAct, actOrder, sessFiles, nBatch,
                   nSweep, nApi, nFail, sweepLog, runVars, attemptVars,
                   incLog, sessPaths, calc, detect>>

\* _process_batch: an awaited database call raised; except: db.rollback()
ProcFailed ==
    /\ pc["consumer"] \in {"p_flush", "o_create", "o_select", "p_commit"}
    /\ ~stopping
    /\ nFail < MaxFail
    /\ nFail' = nFail + 1
    /\ uow' = [uow EXCEPT !["consumer"] = EmptyUow]
    /\ loc' = [loc EXCEPT !["consumer"] = NoLocals]
    /\ pc' = [pc EXCEPT !["consumer"] = "recv"]
    /\ pendEvents' = 0
    /\ batchStart' = NoBatch
    /\ UNCHANGED <<commitVars, now, watchVars, bufRest, queue, projActive,
                   dbEvents, active, lastAct, actOrder, sessFiles, dbSess,
                   nBatch, nSweep, nApi, sweepLog, runVars, attemptVars,
                   metricVars>>

\* ------------------------------------------------------------------------
\* EventProcessor.run step by step: queue.get() of asyncio.Queue, the
\* put_nowait of the flush thread, the back-off, and the shutdown
\* ------------------------------------------------------------------------

\* the task T is suspended at an await, or has not run yet
Suspended(T) ==
    IF T = "consumer"
       THEN pc[T] # "done" /\ getter # "checked"
       ELSE pc[T] # "done"

\* _sync_flush_callback on the timer thread of a DebounceBuffer: put_nowait
\* appends the pair, and _wakeup_next sets the result of the getter future
\* that is in _getters; a consumer that has seen the queue empty and has
\* not yet appended its future is not in _getters
Send(k, batch) ==
    /\ nBatch < MaxBatch
    /\ nBatch' = nBatch + 1
    /\ queue' = SyncFlushCallback(queue, k, batch)
    /\ getter' = IF getter = "waiting" THEN "woken" ELSE getter
    /\ UNCHANGED <<commitVars, now, watchVars, bufRest, loopVars, stopping,
                   nTaken, liveAtStop, attemptVars, metricVars, active,
                   lastAct, actOrder, sessFiles, dbSess, pc, loc, uow, nSweep,
                   nApi, nFail, sweepLog>>

\* run: consume_events finds the queue non-empty: get_nowait, and
\* _process_batch up to its first flush
RunGet ==
    /\ TakeBatch(queue)
    /\ UNCHANGED nBatch

\* Queue.get: `while self.empty()` is true
GetEmpty ==
    /\ pc["consumer"] = "recv"
    /\ getter = "none"
    /\ ~stopping
    /\ queue = <<>>
    /\ getter' = "checked"
    /\ UNCHANGED <<bufVars, sessVars, commitVars, watchVars, loopVars,
                   stopping, nTaken, liveAtStop, attemptVars, metricVars>>

\* Queue.get: getter = create_future(); _getters.append(getter);
\* await getter
GetPark ==
    /\ getter = "checked"
    /\ getter' = "waiting"
    /\ UNCHANGED <<bufVars, sessVars, commitVars, watchVars, loopVars,
                   stopping, nTaken, liveAtStop, attemptVars, metricVars>>

\* Queue.get: the getter future has its result; the task resumes and
\* evaluates `while self.empty()` again
GetWoken ==
    /\ getter = "woken"
    /\ ~stopping
    /\ getter' = "none"
    /\ UNCHANGED <<bufVars, sessVars, commitVars, watchVars, loopVars,
                   stopping, nTaken, liveAtStop, attemptVars, metricVars>>

\* _process_batch: an awaited database call raised and db.rollback() in the
\* handler raised too: the exception leaves _process_batch, run logs it and
\* awaits asyncio.sleep(1)
ProcCrashed ==
    /\ pc["consumer"] \in {"p_flush", "o_create", "o_select", "p_commit"}
    /\ ~stopping
    /\ nFail < MaxFail
    /\ nFail' = nFail + 1
    /\ uow' = [uow EXCEPT !["consumer"] = EmptyUow]
    /\ loc' = [loc EXCEPT !["consumer"] = NoLocals]
    /\ pc' = [pc EXCEPT !["consumer"] = "r_sleep"]
    /\ pendEvents' = 0
    /\ batchStart' = NoBatch
    /\ UNCHANGED <<commitVars, now, watchVars, bufRest, queue, projActive,
                   dbEvents, active, lastAct, actOrder, sessFiles, dbSess,
                   nBatch, nSweep, nApi, sweepLog, runVars, attemptVars,
                   metricVars>>

\* run: asyncio.sleep(1) is over, the loop goes on with consume_events
RunResumed ==
    /\ pc["consumer"] = "r_sleep"
    /\ ~stopping
    /\ pc' = [pc EXCEPT !["consumer"] = "recv"]
    /\ UNCHANGED <<commitVars, now, watchVars, bufRest, queue, loopVars,
                   runVars, attemptVars, metricVars, active, lastAct,
                   actOrder, sessFiles, dbSess, loc, uow, nBatch, nSweep,
                   nApi, nFail, sweepLog>>

\* lifespan after the yield: task_processor.cancel(), task_sweeper.cancel();
\* gather then waits for the two tasks; watcher_service.stop() and the close
\* of the AI provider touch nothing of the state here, and nothing in the
\* shutdown touches _commit_timers
StopPipeline ==
    /\ ~stopping
    /\ Suspended("consumer")
    /\ stopping' = TRUE
    /\ liveAtStop' = {h \in 1..Len(handles) : handles[h].st = "scheduled"}
    /\ UNCHANGED <<bufVars, sessVars, commitVars, watchVars, loopVars,
                   getter, nTaken, attemptVars, metricVars>>

\* a handler that catches the CancelledError and goes on with the loop
CancelledContinue(label) == IF label = "r_sleep" THEN "done" ELSE "recv"

\* where a task that got the CancelledError at the await `label` is next:
\* `except asyncio.CancelledError: break` ends the loop, and from the sleep
\* in the `except Exception` branch the error leaves run
CancelledExit(label) == "done"

\* the cancelled task T is resumed with CancelledError at its await. In
\* Queue.get the getter is cancelled and removed; in _process_batch the
\* error is no Exception, so it passes `except Exception`, the session is
\* closed by its context manager, and run breaks out of its loop; in
\* asyncio.sleep(1) the error leaves run. A commit that was awaited has
\* reached the database (landed) or has not.
TaskCancelled(T, landed) ==
    /\ stopping
    /\ Suspended(T)
    /\ landed => pc[T] \in {"p_commit", "s_commit"}
    /\ pc' = [pc EXCEPT ![T] = CancelledExit(pc[T])]
    /\ uow' = [uow EXCEPT ![T] = EmptyUow]
    /\ loc' = [loc EXCEPT ![T] = NoLocals]
    /\ dbSess' = IF landed THEN Committed(T) ELSE dbSess
    /\ IF T = "consumer"
          THEN /\ getter' = "none"
               /\ pendEvents' = 0
               /\ batchStart' = NoBatch
               /\ dbEvents' = IF landed
                                 THEN [dbEvents EXCEPT
                                          ![loc[T].key] = @ + pendEvents]
                                 ELSE dbEvents
          ELSE UNCHANGED <<getter, pendEvents, batchStart, dbEvents>>
    /\ dbMetrics' = IF landed THEN CommittedMetrics(T) ELSE dbMetrics
    /\ UNCHANGED <<commitVars, now, watchVars, bufRest, queue, projActive,
                   stopping, nTaken, liveAtStop, attemptVars, incLog,
                   sessPaths, calc, detect, active, lastAct, actOrder, sessFiles,
                   nBatch, nSweep, nApi, nFail, sweepLog>>

\* close_session up to its first await, for the caller T: pop the index
\* entry of k; the locals of T after the call
ClosePopped(T, k) == [loc[T] EXCEPT !.key = k, !.sid = active[k]]

\* close_session: the select is done; ended_at, status, active_minutes and
\* files_touched are assigned; _compute_metrics and db.flush() are awaited
CloseSelected(T) ==
    LET k == loc[T].key
        sid == loc[T].sid
        u == Loaded(T, sid)
        started == u.cur[sid].started_at
        duration == now - started
        session == [u.cur[sid] EXCEPT
                       !.ended_at = now,
                       !.status = "closed",
                       !.active_minutes = ActiveMinutes(duration),
                       !.files_touched = Cardinality(sessFiles[k])]
    IN
    /\ pc[T] = "c_select"
    /\ Found(T, sid)
    /\ uow' = [uow EXCEPT ![T] =
                  [u EXCEPT !.cur[sid] = session,
                            !.metrics = Append(@, ComputeMetrics(session, sid))]]
    /\ sessFiles' = [sessFiles EXCEPT ![k] = {}]
    /\ pc' = [pc EXCEPT ![T] = "c_flush"]
    /\ UNCHANGED <<commitVars, now, runVars, attemptVars, metricVars,
                   loopVars, watchVars, bufRest, queue, active, lastAct,
                   actOrder, dbSess, loc, nBatch, nSweep, nApi, nFail,
                   sweepLog>>

\* sweep_idle_sessions_task wakes from its sleep: sweep_idle_sessions lists
\* the idle keys and calls close_session for the first of them
SweepStart ==
    LET idle == IdleProjects(actOrder) IN
    /\ pc["sweeper"] = "s_sleep"
    /\ nSweep < MaxSweep
    /\ nSweep' = nSweep + 1
    /\ uow' = [uow EXCEPT !["sweeper"] = EmptyUow]
    /\ IF idle = <<>>
          THEN /\ loc' = [loc EXCEPT !["sweeper"] = NoLocals]
               /\ pc' = [pc EXCEPT !["sweeper"] = "s_commit"]
               /\ UNCHANGED <<active, sweepLog>>
          ELSE /\ loc' = [loc EXCEPT !["sweeper"] =
                             [ClosePopped("sweeper", Head(idle))
                                 EXCEPT !.idle = Tail(idle), !.closed = <<>>]]
               /\ active' = [active EXCEPT ![Head(idle)] = 0]
               /\ sweepLog' = Append(sweepLog,
                                     [key |-> Head(idle), sid |-> active[Head(idle)],
                                      since |-> now - lastAct[Head(idle)]])
               /\ pc' = [pc EXCEPT !["sweeper"] = "c_select"]
    /\ UNCHANGED <<commitVars, now, runVars, attemptVars, metricVars,
                   loopVars, watchVars, bufRest, queue, lastAct, actOrder,
                   sessFiles, dbSess, nBatch, nApi, nFail>>

\* close_session: the select gave no row, None is returned;
\* sweep_idle_sessions goes on with the next idle key, or returns to the
\* task's db.commit()
SweepMissing ==
    LET idle == SkipClosed(loc["sweeper"].idle, active) IN
    /\ pc["sweeper"] = "c_select"
    /\ ~Found("sweeper", loc["sweeper"].sid)
    /\ IF idle = <<>>
          THEN /\ loc' = [loc EXCEPT !["sweeper"].idle = <<>>]
               /\ pc' = [pc EXCEPT !["sweeper"] = "s_commit"]
               /\ UNCHANGED <<active, sweepLog>>
          ELSE /\ loc' = [loc EXCEPT !["sweeper"] =
                             [ClosePopped("sweeper", Head(idle))
                                 EXCEPT !.idle = Tail(idle)]]
               /\ active' = [active EXCEPT ![Head(idle)] = 0]
               /\ sweepLog' = Append(sweepLog,
                                     [key |-> Head(idle), sid |-> active[Head(idle)],
                                      since |-> now - lastAct[Head(idle)]])
               /\ pc' = [pc EXCEPT !["sweeper"] = "c_select"]
    /\ UNCHANGED <<commitVars, now, runVars, attemptVars, metricVars,
                   loopVars, watchVars, bufRest, queue, lastAct, actOrder,
                   sessFiles, dbSess, uow, nBatch, nSweep, nApi, nFail>>

\* close_session returned its id to sweep_idle_sessions, which appends it
\* and goes on with the next idle key, or returns to the task's db.commit()
SweepClosedOne ==
    LET idle == SkipClosed(loc["sweeper"].idle, active)
        closed == Append(loc["sweeper"].closed, loc["sweeper"].sid)
    IN
    /\ pc["sweeper"] = "c_flush"
    /\ IF idle = <<>>
          THEN /\ loc' = [loc EXCEPT !["sweeper"].idle = <<>>,
                                     !["sweeper"].closed = closed]
               /\ pc' = [pc EXCEPT !["sweeper"] = "s_commit"]
               /\ UNCHANGED <<active, sweepLog>>
          ELSE /\ loc' = [loc EXCEPT !["sweeper"] =
                             [ClosePopped("sweeper", Head(idle))
                                 EXCEPT !.idle = Tail(idle), !.closed = closed]]
               /\ active' = [active EXCEPT ![Head(idle)] = 0]
               /\ sweepLog' = Append(sweepLog,
                                     [key |-> Head(idle), sid |-> active[Head(idle)],
                                      since |-> now - lastAct[Head(idle)]])
               /\ pc' = [pc EXCEPT !["sweeper"] = "c_select"]
    /\ UNCHANGED <<commitVars, now, runVars, attemptVars, metricVars,
                   loopVars, watchVars, bufRest, queue, lastAct, actOrder,
                   sessFiles, dbSess, uow, nBatch, nSweep, nApi, nFail>>

\* sweep_idle_sessions_task: db.commit() succeeded; sleep again
SweepCommitted ==
    /\ pc["sweeper"] = "s_commit"
    /\ dbSess' = Committed("sweeper")
    /\ uow' = [uow EXCEPT !["sweeper"] = EmptyUow]
    /\ loc' = [loc EXCEPT !["sweeper"] = NoLocals]
    /\ pc' = [pc EXCEPT !["sweeper"] = "s_sleep"]
    /\ dbMetrics' = CommittedMetrics("sweeper")
    /\ UNCHANGED <<commitVars, now, runVars, attemptVars, incLog, sessPaths,
                   calc, detect, loopVars, watchVars, bufRest, queue, active, lastAct,
                   actOrder, sessFiles, nBatch, nSweep, nApi, nFail,
                   sweepLog>>

\* sweep_idle_sessions_task: an awaited call raised; the exception is logged
\* and the session is closed without a commit
SweepFailed ==
    /\ pc["sweeper"] \in {"c_select", "c_flush", "s_commit"}
    /\ nFail < MaxFail
    /\ nFail' = nFail + 1
    /\ uow' = [uow EXCEPT !["sweeper"] = EmptyUow]
    /\ loc' = [loc EXCEPT !["sweeper"] = NoLocals]
    /\ pc' = [pc EXCEPT !["sweeper"] = "s_sleep"]
    /\ UNCHANGED <<commitVars, now, runVars, attemptVars, metricVars,
                   loopVars, watchVars, bufRest, queue, active, lastAct,
                   actOrder, sessFiles, dbSess, nBatch, nSweep, nApi,
                   sweepLog>>

\* ------------------------------------------------------------------------
\* routers/sessions.py: POST /sessions/{session_id}/close
\* ------------------------------------------------------------------------

\* the request arrives; the route awaits the select of the session
ApiRequest(id) ==
    /\ pc["api"] = "a_idle"
    /\ nApi < MaxApi
    /\ nApi' = nApi + 1
    /\ loc' = [loc EXCEPT !["api"] = [NoLocals EXCEPT !.req = id]]
    /\ uow' = [uow EXCEPT !["api"] = EmptyUow]
    /\ pc' = [pc EXCEPT !["api"] = "a_select"]
    /\ UNCHANGED <<commitVars, now, runVars, attemptVars, metricVars,
                   loopVars, watchVars, bufRest, queue, active, lastAct,
                   actOrder, sessFiles, dbSess, nBatch, nSweep, nFail,
                   sweepLog>>

\* the select is done: 404 without a row; else close_session of the row's
\* project up to its first await: 409 when the index has no entry
ApiSelected ==
    LET id == loc["api"].req
        u == Loaded("api", id)
        k == u.cur[id].project_id
    IN
    /\ pc["api"] = "a_select"
    /\ IF ~Found("api", id)
          THEN /\ pc' = [pc EXCEPT !["api"] = "a_idle"]
               /\ loc' = [loc EXCEPT !["api"] = [NoLocals EXCEPT !.ret = 404]]
               /\ UNCHANGED <<uow, active>>
          ELSE IF active[k] = 0
          THEN /\ pc' = [pc EXCEPT !["api"] = "a_idle"]
               /\ loc' = [loc EXCEPT !["api"] = [NoLocals EXCEPT !.ret = 409]]
               /\ uow' = [uow EXCEPT !["api"] = EmptyUow]
               /\ UNCHANGED active
          ELSE /\ pc' = [pc EXCEPT !["api"] = "c_select"]
               /\ loc' = [loc EXCEPT !["api"] = ClosePopped("api", k)]
               /\ uow' = [uow EXCEPT !["api"] = u]
               /\ active' = [active EXCEPT ![k] = 0]
    /\ UNCHANGED <<commitVars, now, runVars, attemptVars, metricVars,
                   loopVars, watchVars, bufRest, queue, lastAct, actOrder,
                   sessFiles, dbSess, nBatch, nSweep, nApi, nFail, sweepLog>>

\* close_session returned its id; db.refresh(session) is done, the route
\* returned and get_db's session.commit() succeeded
ApiCommitted ==
    /\ pc["api"] = "c_flush"
    /\ dbSess' = Committed("api")
    /\ uow' = [uow EXCEPT !["api"] = EmptyUow]
    /\ loc' = [loc EXCEPT !["api"] = [NoLocals EXCEPT !.ret = loc["api"].sid]]
    /\ pc' = [pc EXCEPT !["api"] = "a_idle"]
    /\ dbMetrics' = CommittedMetrics("api")
    /\ UNCHANGED <<commitVars, now, runVars, attemptVars, incLog, sessPaths,
                   calc, detect, loopVars, watchVars, bufRest, queue, active, lastAct,
                   actOrder, sessFiles, nBatch, nSweep, nApi, nFail,
                   sweepLog>>

\* get_db: an awaited call raised; session.rollback(), the error goes out
ApiFailed ==
    /\ pc["api"] \in {"a_select", "c_select", "c_flush"}
    /\ nFail < MaxFail
    /\ nFail' = nFail + 1
    /\ uow' = [uow EXCEPT !["api"] = EmptyUow]
    /\ loc' = [loc EXCEPT !["api"] = [NoLocals EXCEPT !.ret = 500]]
    /\ pc' = [pc EXCEPT !["api"] = "a_idle"]
    /\ UNCHANGED <<commitVars, now, runVars, attemptVars, metricVars,
                   loopVars, watchVars, bufRest, queue, active, lastAct,
                   actOrder, sessFiles, dbSess, nBatch, nSweep, nApi,
                   sweepLog>>

\* one minute passes for the asyncio tasks; an awaited database call takes
\* less than that, so no task is inside an operation when the minute ends
TickSession ==
    /\ now < MaxClock
    /\ pc["consumer"] = "recv"
    /\ pc["sweeper"] = "s_sleep"
    /\ pc["api"] = "a_idle"
    /\ now' = now + 1
    /\ UNCHANGED <<runVars, attemptVars, metricVars, loopVars, watchVars,
                   bufRest, queue, sessVars, commitVars>>

InitSess ==
    /\ active = [k \in Keys |-> 0]
    /\ lastAct = [k \in Keys |-> NoTime]
    /\ actOrder = <<>>
    /\ sessFiles = [k \in Keys |-> {}]
    /\ dbSess = <<>>
    /\ pc = [T \in Tasks |->
                CASE T = "consumer" -> "recv"
                  [] T = "sweeper" -> "s_sleep"
                  [] OTHER -> "a_idle"]
    /\ loc = [T \in Tasks |-> NoLocals]
    /\ uow = [T \in Tasks |-> EmptyUow]
    /\ nBatch = 0
    /\ nSweep = 0
    /\ nApi = 0
    /\ nFail = 0
    /\ sweepLog = <<>>

\* ------------------------------------------------------------------------
\* EventProcessor: _schedule_commit on its own, and the event loop running
\* the timer handles
\* ------------------------------------------------------------------------

\* a call of _schedule_commit for key k
ScheduleCall(k) ==
    /\ ~stopping
    /\ nSched < MaxSched
    /\ nSched' = nSched + 1
    /\ ScheduleCommit(k)
    /\ UNCHANGED <<now, runVars, attemptVars, metricVars, loopVars, watchVars,
                   bufRest, queue, sessVars, attempts>>

\* _execute_commit for key k has been started by handle h and awaits
\* get_diff_stats: no statistics yet, no message asked for, no VCS commit,
\* nothing added to its database session; seen records how many
\* FileEvents of the key were stored when git commit returned
NewAttempt(k, since, h) ==
    [key |-> k, since |-> since, h |-> h, st |-> "diff", files |-> 0,
     asked |-> FALSE, vcs |-> "none", rec |-> FALSE, mark |-> 0,
     seen |-> 0]

\* a handle that is still scheduled after its callback ran
FiredStaysLive(handle) == handle

\* a handle of call_later whose callback ran: it runs once
Fired(handle) == [handle EXCEPT !.st = "ran", !.at = 0]

\* the event loop runs the callback of handle h, not earlier than the delay
\* after call_later and not when the handle is cancelled: the lambda starts
\* _execute_commit for the handle's key
CommitTimerRun(h) ==
    /\ handles[h].st = "scheduled"
    /\ now - handles[h].at >= AUTO_COMMIT_DEBOUNCE
    /\ handles' = [handles EXCEPT ![h] = Fired(@)]
    /\ attempts' = Append(attempts,
                          NewAttempt(handles[h].key,
                                     now - lastSched[handles[h].key], h))
    /\ UNCHANGED <<now, runVars, attemptVars, metricVars, loopVars, watchVars,
                   bufRest, queue, sessVars, commitTimers, lastSched, nSched>>

\* one second passes for the event loop
TickCommit ==
    /\ now < MaxCommitTime
    /\ now' = now + 1
    /\ UNCHANGED <<runVars, attemptVars, metricVars, loopVars, watchVars,
                   bufRest, queue, sessVars, commitVars>>

\* ------------------------------------------------------------------------
\* EventProcessor._execute_commit: the commit attempt a timer has started,
\* one action for each await
\* ------------------------------------------------------------------------

\* what get_diff_stats may report as files_changed
DiffChoices == {0, 2}

\* a check of the statistics that never skips
NothingToCommitNever(files_changed) == FALSE

\* `if diff_stats.files_changed == 0`
NothingToCommit(files_changed) == files_changed = 0

Max2(a, b) == IF a >= b THEN a ELSE b

\* _process_batch for a batch of key k as one step, from the select of the
\* project to _schedule_commit: the FileEvents of the batch are committed
\* and the commit timer of k is started anew
BatchStored(k) ==
    /\ ~stopping
    /\ nSched < MaxSched
    /\ nSched' = nSched + 1
    /\ dbEvents' = [dbEvents EXCEPT ![k] = @ + 1]
    /\ ScheduleCommit(k)
    /\ UNCHANGED <<now, runVars, attemptVars, metricVars, watchVars, bufRest,
                   queue, sessVars, attempts, projActive, pendEvents,
                   batchStart>>

\* attempt a: get_diff_stats came back from its thread with `files`
\* changed files; with none the attempt returns, else
\* generate_commit_message is awaited inside the database session
AttemptDiff(a, files) ==
    /\ attempts[a].st = "diff"
    /\ attempts' = [attempts EXCEPT
                       ![a].files = files,
                       ![a].st = IF NothingToCommit(files)
                                    THEN "skipped" ELSE "ai"]
    /\ UNCHANGED <<now, runVars, attemptVars, metricVars, loopVars, watchVars,
                   bufRest, queue, sessVars, commitTimers, handles, lastSched,
                   nSched>>

\* attempt a: asyncio.to_thread(get_diff_stats) raised; the await is
\* outside of the try, the task of the attempt ends with the exception
AttemptCrashed(a) ==
    /\ attempts[a].st = "diff"
    /\ attempts' = [attempts EXCEPT ![a].st = "crashed"]
    /\ UNCHANGED <<now, runVars, attemptVars, metricVars, loopVars, watchVars,
                   bufRest, queue, sessVars, commitTimers, handles, lastSched,
                   nSched>>

\* attempt a: generate_commit_message returned the message (of the
\* provider, or the fallback); git.commit is awaited in a thread
AttemptMessage(a) ==
    /\ attempts[a].st = "ai"
    /\ attempts' = [attempts EXCEPT ![a].asked = TRUE, ![a].st = "vcs"]
    /\ UNCHANGED <<now, runVars, attemptVars, metricVars, loopVars, watchVars,
                   bufRest, queue, sessVars, commitTimers, handles, lastSched,
                   nSched>>

\* a test of the result that takes every commit for a success
CommitSucceededAlways(success) == TRUE

\* `if commit_result.success`
CommitSucceeded(success) == success

\* attempt a: git.commit came back; with success the CommitRecord is added
\* and the UPDATE of the FileEvents is awaited, else db.rollback() and the
\* attempt is over
AttemptVcs(a, success) ==
    /\ attempts[a].st = "vcs"
    /\ attempts' = [attempts EXCEPT
                       ![a].vcs = IF success THEN "ok" ELSE "failed",
                       ![a].seen = dbEvents[attempts[a].key],
                       ![a].rec = CommitSucceeded(success),
                       ![a].st = IF CommitSucceeded(success)
                                    THEN "mark" ELSE "failed"]
    /\ UNCHANGED <<now, runVars, attemptVars, metricVars, loopVars, watchVars,
                   bufRest, queue, sessVars, commitTimers, handles, lastSched,
                   nSched>>

\* attempt a: the UPDATE has set committed = True, inside the transaction
\* of the attempt, on every FileEvent of the key that is stored and not
\* marked; db.commit() is awaited
AttemptMark(a) ==
    /\ attempts[a].st = "mark"
    /\ attempts' = [attempts EXCEPT ![a].mark = dbEvents[attempts[a].key],
                                    ![a].st = "store"]
    /\ UNCHANGED <<now, runVars, attemptVars, metricVars, loopVars, watchVars,
                   bufRest, queue, sessVars, commitTimers, handles, lastSched,
                   nSched>>

\* attempt a: db.commit() succeeded: the CommitRecord and the marks of the
\* FileEvents are stored together
AttemptStored(a) ==
    /\ attempts[a].st = "store"
    /\ attempts' = [attempts EXCEPT ![a].st = "done"]
    /\ dbCommits' = Append(dbCommits, [key |-> attempts[a].key, attempt |-> a])
    /\ dbMarked' = [dbMarked EXCEPT ![attempts[a].key] =
                                        Max2(@, attempts[a].mark)]
    /\ UNCHANGED <<now, runVars, loopVars, watchVars, bufRest, queue,
                   sessVars, commitTimers, handles, lastSched, nSched,
                   metricVars>>

\* attempt a: an await inside the try raised; except: db.rollback() drops
\* what the session of the attempt holds, the error is logged
AttemptRaised(a) ==
    /\ attempts[a].st \in {"ai", "vcs", "mark", "store"}
    /\ attempts' = [attempts EXCEPT ![a].rec = FALSE, ![a].mark = 0,
                                    ![a].st = "raised"]
    /\ UNCHANGED <<now, runVars, attemptVars, metricVars, loopVars, watchVars,
                   bufRest, queue, sessVars, commitTimers, handles, lastSched,
                   nSched>>

\* ------------------------------------------------------------------------
\* WatcherService: watch_project, unwatch_project, and the Observer
\* dispatching a notification to the handlers scheduled on its path
\* ------------------------------------------------------------------------

\* _ProjectEventHandler(project_id, ...): a new handler with an empty buffer
NewHandler(k) == [key |-> k, buf |-> <<>>]

\* a membership test that never finds the key
WatchingNever(k) == FALSE

\* project_id in self._handlers
Watching(k) == registered[k] # 0

\* watch_project(project_id, path): True at once for a key in _handlers,
\* False for a path that is no directory; else a new handler is scheduled
\* on the Observer and stored in _handlers
WatchProject(k, isDir) ==
    LET call == [n |-> nWatch + 1, key |-> k, isDir |-> isDir] IN
    /\ nWatch < MaxWatch
    /\ nWatch' = nWatch + 1
    /\ IF Watching(k)
          THEN /\ watchRet' = call @@ [value |-> TRUE]
               /\ UNCHANGED <<registered, watches>>
          ELSE IF ~isDir
          THEN /\ watchRet' = call @@ [value |-> FALSE]
               /\ UNCHANGED <<registered, watches>>
          ELSE /\ watches' = Append(watches, NewHandler(k))
               /\ registered' = [registered EXCEPT ![k] = Len(watches) + 1]
               /\ watchRet' = call @@ [value |-> TRUE]
    /\ UNCHANGED <<runVars, attemptVars, metricVars, loopVars, bufVars,
                   sessVars, commitVars, nNotify>>

\* unwatch_project(project_id): the key is deleted from _handlers; the
\* Observer keeps what was scheduled on it
UnwatchProject(k) ==
    /\ nWatch < MaxWatch
    /\ nWatch' = nWatch + 1
    /\ registered' = [registered EXCEPT ![k] = 0]
    /\ UNCHANGED <<runVars, attemptVars, metricVars, loopVars, bufVars,
                   sessVars, commitVars, watches, watchRet, nNotify>>

\* the Observer thread dispatches one notification below the directory of
\* key k: every handler scheduled on that path runs _push (dedup, append)
Dispatch(k, p, kind) ==
    LET entry == [file_path |-> p, event_type |-> kind] IN
    /\ nNotify < MaxNotify
    /\ nNotify' = nNotify + 1
    /\ \E w \in 1..Len(watches) : watches[w].key = k
    /\ watches' = [w \in 1..Len(watches) |->
                      IF watches[w].key = k /\ ~Already(watches[w].buf, entry)
                         THEN [watches[w] EXCEPT !.buf = Append(@, entry)]
                         ELSE watches[w]]
    /\ UNCHANGED <<runVars, attemptVars, metricVars, loopVars, bufVars,
                   sessVars, commitVars, registered, watchRet, nWatch>>

\* the debounce timer of handler w has fired: _flush hands the buffer to
\* _sync_flush_callback under the handler's project_id
HandlerFlush(w) ==
    /\ watches[w].buf # <<>>
    /\ queue' = SyncFlushCallback(queue, watches[w].key, watches[w].buf)
    /\ watches' = [watches EXCEPT ![w].buf = <<>>]
    /\ UNCHANGED <<now, bufRest, sessVars, commitVars, runVars, attemptVars,
                   metricVars, loopVars, registered, watchRet, nWatch,
                   nNotify>>

InitWatch ==
    /\ registered = [k \in Keys |-> 0]
    /\ watches = <<>>
    /\ watchRet = [n |-> 0, key |-> "k1", isDir |-> FALSE, value |-> FALSE]
    /\ nWatch = 0
    /\ nNotify = 0

\* ------------------------------------------------------------------------
\* routers/projects.py: PATCH /projects/{project_id}/deactivate
\* ------------------------------------------------------------------------

\* deactivate_project sets is_active = False, the route calls
\* unwatch_project, and get_db commits
DeactivateProject(k) ==
    /\ projActive' = [projActive EXCEPT ![k] = FALSE]
    /\ registered' = [registered EXCEPT ![k] = 0]
    /\ UNCHANGED <<bufVars, sessVars, commitVars, watches, watchRet, nWatch,
                   nNotify, dbEvents, pendEvents, batchStart, runVars,
                   attemptVars, metricVars>>

InitLoop ==
    /\ projActive = [k \in Keys |-> TRUE]
    /\ dbEvents = [k \in Keys |-> 0]
    /\ pendEvents = 0
    /\ batchStart = NoBatch

InitRun ==
    /\ getter = "none"
    /\ stopping = FALSE
    /\ nTaken = 0
    /\ liveAtStop = {}

InitAttempt ==
    /\ dbMarked = [k \in Keys |-> 0]
    /\ dbCommits = <<>>

\* ------------------------------------------------------------------------
\* core/project_detector.py
\* ------------------------------------------------------------------------

\* the keys of _DETECTION_RULES in their order
ProjectTypes == <<"nextjs", "react", "node", "python", "roblox", "rust",
                  "go", "java", "dotnet">>

\* one rule: the indicator as the components of its path, or as the ending
\* that follows its leading "*", and the weight
Rule(indicator, weight) == [glob |-> FALSE, path |-> indicator, w |-> weight]
GlobRule(ext, weight) == [glob |-> TRUE, ext |-> ext, w |-> weight]

\* _DETECTION_RULES
DetectionRules(t) ==
    CASE t = "nextjs" ->
           <<Rule(<<"next.config.js">>, 10), Rule(<<"next.config.ts">>, 10),
             Rule(<<"next.config.mjs">>, 10), Rule(<<".next">>, 8),
             Rule(<<"app", "page.tsx">>, 6), Rule(<<"pages", "_app.tsx">>, 6)>>
      [] t = "react" ->
           <<Rule(<<"src", "App.tsx">>, 8), Rule(<<"src", "App.jsx">>, 8),
             Rule(<<"src", "index.tsx">>, 6), Rule(<<"src", "index.jsx">>, 6),
             Rule(<<"public", "index.html">>, 5),
             Rule(<<"vite.config.ts">>, 4), Rule(<<"vite.config.js">>, 4),
             Rule(<<"create-react-app">>, 3)>>
      [] t = "node" ->
           <<Rule(<<"package.json">>, 4), Rule(<<"node_modules">>, 3),
             Rule(<<"index.js">>, 2), Rule(<<"index.ts">>, 2),
             Rule(<<"server.js">>, 4), Rule(<<"app.js">>, 3),
             Rule(<<"tsconfig.json">>, 2)>>
      [] t = "python" ->
           <<Rule(<<"pyproject.toml">>, 10), Rule(<<"setup.py">>, 8),
             Rule(<<"setup.cfg">>, 8), Rule(<<"requirements.txt">>, 6),
             Rule(<<"Pipfile">>, 6), Rule(<<"poetry.lock">>, 8),
             Rule(<<"main.py">>, 4), Rule(<<"manage.py">>, 6),
             Rule(<<"wsgi.py">>, 5), Rule(<<"asgi.py">>, 5)>>
      [] t = "roblox" ->
           <<Rule(<<"default.project.json">>, 10), Rule(<<".rojo">>, 8),
             GlobRule(".rbxl", 8), GlobRule(".rbxlx", 8),
             Rule(<<"src", "ServerScriptService">>, 6),
             Rule(<<"src", "ReplicatedStorage">>, 6)>>
      [] t = "rust" ->
           <<Rule(<<"Cargo.toml">>, 10), Rule(<<"Cargo.lock">>, 8),
             Rule(<<"src", "main.rs">>, 6), Rule(<<"src", "lib.rs">>, 6)>>
      [] t = "go" ->
           <<Rule(<<"go.mod">>, 10), Rule(<<"go.sum">>, 8),
             Rule(<<"main.go">>, 6), Rule(<<"cmd">>, 5)>>
      [] t = "java" ->
           <<Rule(<<"pom.xml">>, 10), Rule(<<"build.gradle">>, 10),
             Rule(<<"build.gradle.kts">>, 10),
             Rule(<<"src", "main", "java">>, 8), Rule(<<"gradlew">>, 5)>>
      [] t = "dotnet" ->
           <<GlobRule(".csproj", 10), GlobRule(".sln", 10),
             GlobRule(".fsproj", 10), Rule(<<"Program.cs">>, 6),
             Rule(<<"appsettings.json">>, 5)>>

\* _MIN_CONFIDENCE
MIN_CONFIDENCE == 4

\* the files that may be below the path, each as the components of its
\* path relative to it
DirEntries ==
    {<<"next.config.js">>, <<"package.json">>, <<"index.js">>,
     <<"src", "App.tsx">>, <<"lib", "index.tsx">>, <<"main.py">>,
     <<"x.csproj">>, <<"src", "main", "java", "A.java">>,
     <<"node_modules", "setup.py">>}

\* n.endswith(ext) for the names below DirEntries and the endings of the
\* rules
EndsWith(n, ext) == n = "x.csproj" /\ ext = ".csproj"

\* (path / indicator).exists(): the indicator is a file of the directory
\* or one of the directories above a file
Exists(entries, indicator) ==
    \E e \in entries :
        /\ Len(e) >= Len(indicator)
        /\ SubSeq(e, 1, Len(indicator)) = indicator

\* child_names: the names of the direct children, and of the children of
\* every child directory but .git, node_modules and __pycache__
ChildNames(entries) ==
    {e[1] : e \in entries} \cup
    {e[2] : e \in {x \in entries :
                       /\ Len(x) >= 2
                       /\ x[1] \notin {".git", "node_modules", "__pycache__"}}}

\* one indicator of the loop over the rules: does it add its weight
Matches(rule, entries) ==
    IF rule.glob
       THEN \E n \in ChildNames(entries) : EndsWith(n, rule.ext)
       ELSE \/ rule.path[Len(rule.path)] \in ChildNames(entries)
            \/ Exists(entries, rule.path)

\* scores[project_type] after the loop over its rules
RECURSIVE SumWeights(_, _)
SumWeights(rules, entries) ==
    IF rules = <<>> THEN 0
    ELSE (IF Matches(Head(rules), entries) THEN Head(rules).w ELSE 0)
         + SumWeights(Tail(rules), entries)

Score(t, entries) == SumWeights(DetectionRules(t), entries)

\* a choice that takes the first type, whatever the scores are
FirstType(entries) == ProjectTypes[1]

\* max(scores, key=lambda t: scores[t]): the first type in the order of
\* the dict that no other type outscores
BestType(entries) ==
    LET best == CHOOSE i \in 1..Len(ProjectTypes) :
                   /\ \A j \in 1..Len(ProjectTypes) :
                         Score(ProjectTypes[j], entries)
                             <= Score(ProjectTypes[i], entries)
                   /\ \A j \in 1..(i - 1) :
                         Score(ProjectTypes[j], entries)
                             < Score(ProjectTypes[i], entries)
    IN ProjectTypes[best]

\* detect_project_type(path)
DetectProjectType(kind, entries) ==
    IF kind # "dir" THEN "unknown"
    ELSE IF Score(BestType(entries), entries) >= MIN_CONFIDENCE
            THEN BestType(entries)
            ELSE "unknown"

\* no path is handed to detect_project_type
NoDetect == [kind |-> "missing", entries |-> {}, result |-> "none"]

\* the paths handed to detect_project_type: a directory with some of the
\* files, a file, or nothing
DetectInputs ==
    {[NoDetect EXCEPT !.kind = "dir", !.entries = es] : es \in SUBSET DirEntries}
    \cup {[NoDetect EXCEPT !.kind = "file"], NoDetect}

\* a call of detect_project_type
Detect ==
    /\ detect.result = "none"
    /\ detect' = [detect EXCEPT
                     !.result = DetectProjectType(detect.kind, detect.entries)]
    /\ UNCHANGED <<bufVars, sessVars, commitVars, watchVars, loopVars,
                   runVars, attemptVars, dbMetrics, incLog, sessPaths, calc>>

\* no session is handed to the end of close_session on its own
NoCalc == [duration |-> 0, files_touched |-> 0, commits_made |-> 0,
           active_minutes |-> 0, metric |-> <<>>]

\* the sessions that the end of close_session may get: the minutes from
\* started_at to now, the size of the touched-file set, commits_made
CalcInputs ==
    {[NoCalc EXCEPT !.duration = d, !.files_touched = f, !.commits_made = c] :
        d \in (0 - 1)..MaxMinutes, f \in 0..MaxFiles, c \in 0..MaxCommits}

\* close_session from the assignment of active_minutes on:
\* _compute_metrics makes the ProductivityMetric of the session
CloseCompute ==
    LET session == [calc EXCEPT !.active_minutes = ActiveMinutes(calc.duration)]
    IN
    /\ calc.metric = <<>>
    /\ calc' = [session EXCEPT !.metric = ComputeMetrics(session, 0)]
    /\ UNCHANGED <<bufVars, sessVars, commitVars, watchVars, loopVars,
                   runVars, attemptVars, dbMetrics, incLog, sessPaths,
                   detect>>

InitMetric ==
    /\ dbMetrics = <<>>
    /\ incLog = <<>>
    /\ sessPaths = <<>>

InitCommit ==
    /\ commitTimers = [k \in Keys |-> 0]
    /\ handles = <<>>
    /\ lastSched = [k \in Keys |-> NoTime]
    /\ attempts = <<>>
    /\ nSched = 0

InitPipeline ==
    /\ InitBuf /\ InitSess /\ InitCommit /\ InitWatch /\ InitLoop /\ InitRun
    /\ InitAttempt /\ InitMetric

Init == InitPipeline /\ calc = NoCalc /\ detect = NoDetect

Next ==
    \/ \E h \in Handlers, p \in Paths, kind \in Kinds : PushStart(h, p, kind)
    \/ PushLocked
    \/ \E t \in 1..Len(timers) : TimerFire(t)
    \/ \E t \in 1..Len(timers) : FlushCopy(t)
    \/ \E t \in 1..Len(timers) : FlushClear(t)
    \/ \E t \in 1..Len(timers) : FlushHandoff(t)
    \/ ConsumeEvents
    \/ Tick

Spec == Init /\ [][Next]_vars

\* the waiting timers
Waiting == {t \in 1..Len(timers) : timers[t].st = "waiting"}

\* the clock has passed MaxTime and timers still wait: the time goes on to
\* the deadline of the timer that is due first
AwaitTimer ==
    /\ now >= MaxTime
    /\ \E t \in Waiting :
           /\ timers[t].deadline > now
           /\ \A u \in Waiting : timers[t].deadline <= timers[u].deadline
           /\ now' = timers[t].deadline
    /\ UNCHANGED <<bufRest, queue, sessVars, commitVars, watchVars, runVars,
                   attemptVars, metricVars, loopVars>>

NextFlush == Next \/ AwaitTimer

\* the timer threads and the threads calling _push are threads of the
\* operating system: each of them runs when it can, and time passes
SpecFlush ==
    /\ Init /\ [][NextFlush]_vars
    /\ WF_vars(Tick) /\ WF_vars(AwaitTimer) /\ WF_vars(PushLocked)
    /\ \A t \in 1..MaxPush :
           /\ WF_vars(t \in 1..Len(timers) /\ TimerFire(t))
           /\ WF_vars(t \in 1..Len(timers) /\ FlushCopy(t))
           /\ WF_vars(t \in 1..Len(timers) /\ FlushClear(t))
           /\ WF_vars(t \in 1..Len(timers) /\ FlushHandoff(t))

\* Spec with notifications for paths of the ignore lists as well
NextFilter ==
    \/ \E h \in Handlers, p \in Paths \cup IgnorablePaths, kind \in Kinds :
          PushStart(h, p, kind)
    \/ PushLocked
    \/ \E t \in 1..Len(timers) : TimerFire(t)
    \/ \E t \in 1..Len(timers) : FlushCopy(t)
    \/ \E t \in 1..Len(timers) : FlushClear(t)
    \/ \E t \in 1..Len(timers) : FlushHandoff(t)
    \/ ConsumeEvents
    \/ Tick

SpecFilter == Init /\ [][NextFilter]_vars

NextSession ==
    \/ \E k \in Keys, batch \in BatchChoices : RunReceive(k, batch)
    \/ ObserveCall
    \/ ObserveCreated
    \/ ObserveSelected
    \/ ProcCommitted
    \/ ProcFailed
    \/ SweepStart
    \/ CloseSelected("sweeper")
    \/ SweepMissing
    \/ SweepClosedOne
    \/ SweepCommitted
    \/ SweepFailed
    \/ TickSession

SpecSession == Init /\ [][NextSession]_vars

\* the consumer and the close route, without the sweeper
NextApi ==
    \/ \E k \in Keys, batch \in BatchChoices : RunReceive(k, batch)
    \/ ObserveCall
    \/ ObserveCreated
    \/ ObserveSelected
    \/ ProcCommitted
    \/ ProcFailed
    \/ CloseSelected("api")
    \/ \E id \in 1..Len(dbSess) : ApiRequest(id)
    \/ ApiSelected
    \/ ApiCommitted
    \/ ApiFailed
    \/ \E k \in Keys : IncrementCommitCount(k)
    \/ TickSession

SpecApi == Init /\ [][NextApi]_vars

\* the consumer loop, the idle sweep and the manual close together
NextManual ==
    \/ NextSession
    \/ CloseSelected("api")
    \/ \E id \in 1..Len(dbSess) : ApiRequest(id)
    \/ ApiSelected
    \/ ApiCommitted
    \/ ApiFailed

SpecManual == Init /\ [][NextManual]_vars

\* _schedule_commit called at any time, and the timers
NextCommit ==
    \/ \E k \in Keys : ScheduleCall(k)
    \/ \E h \in 1..Len(handles) : CommitTimerRun(h)
    \/ TickCommit
    \/ StopPipeline

SpecCommit == Init /\ [][NextCommit]_vars

\* batches being stored, the timers, and the commit attempts they start
\* the deadlines of the call_later handles that are scheduled
Deadlines ==
    {handles[h].at + AUTO_COMMIT_DEBOUNCE :
        h \in {x \in 1..Len(handles) : handles[x].st = "scheduled"}}

\* the event loop has nothing to run until the next call_later handle is
\* due: the time passes in one step
SleepUntilDue ==
    /\ \E t \in Deadlines :
          /\ t > now
          /\ t <= MaxOverlapTime
          /\ \A u \in Deadlines : u > now => t <= u
          /\ now' = t
    /\ UNCHANGED <<runVars, attemptVars, metricVars, loopVars, watchVars,
                   bufRest, queue, sessVars, commitVars>>

NextAttempt ==
    \/ \E k \in Keys : BatchStored(k)
    \/ \E h \in 1..Len(handles) : CommitTimerRun(h)
    \/ TickCommit
    \/ \E a \in 1..Len(attempts), files \in DiffChoices : AttemptDiff(a, files)
    \/ \E a \in 1..Len(attempts) : AttemptCrashed(a)
    \/ \E a \in 1..Len(attempts) : AttemptMessage(a)
    \/ \E a \in 1..Len(attempts), success \in BOOLEAN : AttemptVcs(a, success)
    \/ \E a \in 1..Len(attempts) : AttemptMark(a)
    \/ \E a \in 1..Len(attempts) : AttemptStored(a)
    \/ \E a \in 1..Len(attempts) : AttemptRaised(a)

SpecAttempt == Init /\ [][NextAttempt]_vars

\* the commit attempts over more than one delay, the clock going from
\* deadline to deadline
NextOverlap ==
    \/ \E k \in Keys : BatchStored(k)
    \/ \E h \in 1..Len(handles) : CommitTimerRun(h)
    \/ SleepUntilDue
    \/ \E a \in 1..Len(attempts), files \in DiffChoices : AttemptDiff(a, files)
    \/ \E a \in 1..Len(attempts) : AttemptCrashed(a)
    \/ \E a \in 1..Len(attempts) : AttemptMessage(a)
    \/ \E a \in 1..Len(attempts), success \in BOOLEAN : AttemptVcs(a, success)
    \/ \E a \in 1..Len(attempts) : AttemptMark(a)
    \/ \E a \in 1..Len(attempts) : AttemptStored(a)
    \/ \E a \in 1..Len(attempts) : AttemptRaised(a)

SpecOverlap == Init /\ [][NextOverlap]_vars

\* _process_batch stores a batch only for a project it finds active
ActiveBatchStored(k) ==
    /\ projActive[k]
    /\ BatchStored(k)

\* the commit timers and the attempts, with projects being deactivated
\* through the API while timers are pending
NextDeactivate ==
    \/ \E k \in Keys : ActiveBatchStored(k)
    \/ \E k \in Keys : DeactivateProject(k)
    \/ \E h \in 1..Len(handles) : CommitTimerRun(h)
    \/ TickCommit
    \/ \E a \in 1..Len(attempts), files \in DiffChoices : AttemptDiff(a, files)
    \/ \E a \in 1..Len(attempts) : AttemptCrashed(a)
    \/ \E a \in 1..Len(attempts) : AttemptMessage(a)
    \/ \E a \in 1..Len(attempts), success \in BOOLEAN : AttemptVcs(a, success)
    \/ \E a \in 1..Len(attempts) : AttemptMark(a)
    \/ \E a \in 1..Len(attempts) : AttemptStored(a)
    \/ \E a \in 1..Len(attempts) : AttemptRaised(a)

SpecDeactivate == Init /\ [][NextDeactivate]_vars

\* the end of close_session and _compute_metrics applied to a session
InitCalc == InitPipeline /\ calc \in CalcInputs /\ detect = NoDetect

NextCalc == CloseCompute

SpecCalc == InitCalc /\ [][NextCalc]_vars

\* detect_project_type applied to a path
InitDetect == InitPipeline /\ calc = NoCalc /\ detect \in DetectInputs

NextDetect == Detect

SpecDetect == InitDetect /\ [][NextDetect]_vars

\* the registration calls, the Observer with the handlers sending their
\* batches, and the consumer of the queue
NextWatch ==
    \/ \E k \in Keys, isDir \in BOOLEAN : WatchProject(k, isDir)
    \/ \E k \in Keys : UnwatchProject(k)
    \/ \E k \in Keys, p \in Paths, kind \in Kinds : Dispatch(k, p, kind)
    \/ \E w \in 1..Len(watches) : HandlerFlush(w)
    \/ ConsumeEvents

SpecWatch == Init /\ [][NextWatch]_vars

\* POST /projects for the directory of key k: register_project finds the
\* path to be a directory and returns the project stored for it as it is
\* (is_active is not touched); the route calls watch_project for it
RegisterProject(k) == WatchProject(k, TRUE)

\* projects being registered and deactivated through the API while the
\* Observer delivers notifications
NextRegister ==
    \/ \E k \in Keys : RegisterProject(k)
    \/ \E k \in Keys : DeactivateProject(k)
    \/ \E k \in Keys, p \in Paths, kind \in Kinds : Dispatch(k, p, kind)
    \/ \E w \in 1..Len(watches) : HandlerFlush(w)
    \/ ConsumeEvents

SpecRegister == Init /\ [][NextRegister]_vars

\* the consumer loop on its own, and projects being deactivated
NextLoop ==
    \/ \E k \in Keys, batch \in BatchChoices : RunReceive(k, batch)
    \/ ObserveCall
    \/ ObserveCreated
    \/ ObserveSelected
    \/ ProcCommitted
    \/ ProcFailed
    \/ \E k \in Keys : DeactivateProject(k)
    \/ TickSession

SpecLoop == Init /\ [][NextLoop]_vars

\* the consumer loop step by step with the flush threads sending, and the
\* shutdown
NextRun ==
    \/ \E k \in Keys, batch \in BatchChoices : Send(k, batch)
    \/ RunGet
    \/ GetEmpty
    \/ GetPark
    \/ GetWoken
    \/ ObserveCall
    \/ ObserveCreated
    \/ ObserveSelected
    \/ ProcCommitted
    \/ ProcFailed
    \/ ProcCrashed
    \/ RunResumed
    \/ StopPipeline
    \/ \E T \in {"consumer", "sweeper"}, landed \in BOOLEAN :
          TaskCancelled(T, landed)

SpecRun == Init /\ [][NextRun]_vars

\* the event loop resumes every task that can go on: the steps of the
\* consumer and the delivery of a cancellation are taken when they stay
\* possible; nothing makes a flush thread send, a database call fail, or
\* the application shut down
FairRun ==
    /\ WF_vars(RunGet)
    /\ WF_vars(GetEmpty)
    /\ WF_vars(GetPark)
    /\ WF_vars(GetWoken)
    /\ WF_vars(ObserveCall)
    /\ WF_vars(ObserveCreated)
    /\ WF_vars(ObserveSelected)
    /\ WF_vars(ProcCommitted)
    /\ WF_vars(RunResumed)
    /\ \A T \in {"consumer", "sweeper"} :
          WF_vars(\E landed \in BOOLEAN : TaskCancelled(T, landed))

SpecRunFair == SpecRun /\ FairRun

\* ------------------------------------------------------------------------
\* Properties of the debounce buffer and the handoff (Spec)
\* ------------------------------------------------------------------------
EntryIds(batch) == {batch[i].id : i \in 1..Len(batch)}

Pairs(batch) == {<<batch[i].file_path, batch[i].event_type>> : i \in 1..Len(batch)}

OnePerPair(batch) == Cardinality(Pairs(batch)) = Len(batch)

\* C1: no buffered entry is ever part of two different batches: whatever a
\* flush has copied into a batch is gone from the buffer as soon as that
\* flush has left its critical section, and no later flush sees it again.
C1_NoEntryInTwoBatches ==
    /\ \A i, j \in 1..Len(flushed) :
           i # j => EntryIds(flushed[i].batch) \cap EntryIds(flushed[j].batch) = {}
    /\ \A h \in Handlers : \A i \in 1..Len(flushed) :
           (flushed[i].h = h /\ EntryIds(flushed[i].batch) \cap EntryIds(buffer[h]) # {})
               => \E t \in 1..Len(timers) :
                      /\ timers[t].st = "copied"
                      /\ timers[t].h = h
                      /\ lock[h] = t

\* two flushes have each taken a non-empty batch out of the same buffer
C1_Witness ==
    /\ Len(flushed) >= 2
    /\ flushed[1].batch # <<>>
    /\ flushed[2].batch # <<>>

\* C2: the unflushed buffer and every flushed batch hold at most one entry
\* per (path, kind); a push whose (path, kind) is buffered leaves the buffer
\* as it is, any other push (same path with another kind included) appends.
C2_AtMostOnePerPair ==
    /\ [](/\ \A h \in Handlers : OnePerPair(buffer[h])
          /\ \A i \in 1..Len(flushed) : OnePerPair(flushed[i].batch)
          /\ \A i \in 1..Len(queue) : OnePerPair(queue[i][2])
          /\ \A i \in 1..Len(received) : OnePerPair(received[i].batch))
    /\ [][(pushPc = "wantlock" /\ pushPc' = "idle") =>
             buffer'[pushH] =
                IF <<pushEntry.file_path, pushEntry.event_type>>
                       \in Pairs(buffer[pushH])
                   THEN buffer[pushH]
                   ELSE Append(buffer[pushH], pushEntry)]_vars

\* a push of a buffered (path, kind) was skipped while the buffer was unflushed
C2_Witness ==
    /\ pushPc = "idle"
    /\ pushResult = "skipped"
    /\ Len(buffer[pushH]) = 1
    /\ nPush = 2

\* C3: a flush hands over a non-empty batch only when a full quiet period
\* has passed since the most recent push on its buffer.
C3_FlushOnlyAfterQuietPeriod ==
    \A i \in 1..Len(flushed) :
        flushed[i].batch # <<>> => flushed[i].quiet >= DEBOUNCE_SECONDS

\* C4: what the consumer receives is, per debounce window, one batch with one
\* entry per (path, kind), delivered once, and not before the quiet period
\* that follows the last event in it.
C4_EndToEndOneBatchAfterQuiet ==
    /\ \A i \in 1..Len(received) : OnePerPair(received[i].batch)
    /\ \A i, j \in 1..Len(received) :
           i # j => EntryIds(received[i].batch) \cap EntryIds(received[j].batch) = {}
    /\ \A i \in 1..Len(received) : \A n \in 1..Len(received[i].batch) :
           received[i].at >= received[i].batch[n].occurred_at + DEBOUNCE_SECONDS

\* ------------------------------------------------------------------------
\* Properties of the session tracker (SpecSession)
\* ------------------------------------------------------------------------
ActiveRows(k) ==
    {i \in 1..Len(dbSess) : dbSess[i].status = "active" /\ dbSess[i].project_id = k}

C6_AtMostOneActivePerKey ==
    \A k \in Keys : Cardinality(ActiveRows(k)) <= 1

\* C7: every committed session with status Active has ended_at NULL.
C7_ActiveHasNoEnd ==
    \A i \in 1..Len(dbSess) :
        dbSess[i].status = "active" => dbSess[i].ended_at = NoTime

\* C8: a committed session that is Closed stays as it is: status,
\* files_touched, ended_at and active_minutes never change again.
C8_ClosedIsFinal ==
    [][\A i \in 1..Len(dbSess) :
          dbSess[i].status = "closed" => dbSess'[i] = dbSess[i]]_vars

\* C9: every stored session a sweep closes belongs to a key whose last
\* activity is older than the idle timeout when the sweep calls
\* close_session for it; a key with newer activity keeps its session.
C9_SweepClosesOnlyIdle ==
    \A i \in 1..Len(sweepLog) :
        dbSess[sweepLog[i].sid].status # "absent"
            => sweepLog[i].since > IdleTimeout

\* ------------------------------------------------------------------------
\* Properties of the auto-commit timers (SpecCommit)
\* ------------------------------------------------------------------------

\* C10: a timer callback starts a commit attempt for a key only when at
\* least 30 seconds have passed since the latest _schedule_commit of that
\* key, and every handle that can still run is the one of the key's latest
\* _schedule_commit, due the full delay after it.
C10_CommitOnlyAfterFullDelay ==
    /\ \A i \in 1..Len(attempts) : attempts[i].since >= AUTO_COMMIT_DEBOUNCE
    /\ \A h \in 1..Len(handles) :
          handles[h].st = "scheduled"
              => /\ handles[h].at = lastSched[handles[h].key]
                 /\ commitTimers[handles[h].key] = h

\* a key was scheduled again while its timer was pending, the pending
\* handle was cancelled, and the later handle has started the attempt
C10_Witness ==
    \E i \in 1..Len(attempts) :
        /\ attempts[i].since >= AUTO_COMMIT_DEBOUNCE
        /\ \E h \in 1..Len(handles) :
              /\ handles[h].key = attempts[i].key
              /\ handles[h].st = "cancelled"
        /\ handles[commitTimers[attempts[i].key]].st = "ran"

\* the handles of key k that are scheduled, not cancelled and not yet run
LiveHandles(k) ==
    {h \in 1..Len(handles) : handles[h].key = k /\ handles[h].st = "scheduled"}

\* C11: in every state at most one commit timer per key is live, and a live
\* one is the handle stored in _commit_timers for the key.
C11_AtMostOneLiveTimerPerKey ==
    \A k \in Keys :
        /\ Cardinality(LiveHandles(k)) <= 1
        /\ LiveHandles(k) \subseteq {commitTimers[k]}

\* a key was scheduled while its earlier timer was live: the earlier handle
\* is cancelled and the new one is the live one
C11_Witness ==
    \E k \in Keys :
        /\ Cardinality(LiveHandles(k)) = 1
        /\ \E h \in 1..Len(handles) :
              handles[h].key = k /\ handles[h].st = "cancelled"

\* ------------------------------------------------------------------------
\* Properties of the registration of directories (SpecWatch)
\* ------------------------------------------------------------------------

\* the handlers of key k that the Observer dispatches to
Receiving(k) == {w \in 1..Len(watches) : watches[w].key = k}

\* C12: after any sequence of watch_project and unwatch_project calls at
\* most one handler with its buffer receives the notifications of a key:
\* the notifications of a key are never buffered by two handlers.
C12_OneObserverPerKey ==
    \A k \in Keys :
        Cardinality({w \in Receiving(k) : watches[w].buf # <<>>}) <= 1

\* ------------------------------------------------------------------------
\* Properties of the consumer loop (SpecLoop)
\* ------------------------------------------------------------------------

\* the step in which _process_batch gives up a batch after a failed call
BatchFails ==
    /\ pc["consumer"] \in {"p_flush", "o_create", "o_select", "p_commit"}
    /\ pc'["consumer"] = "recv"
    /\ nFail' = nFail + 1

\* C13: when a persistence step of a batch fails, the active-session index,
\* the last-activity time and the touched-file set of the batch's key and
\* the commit-timer table are what they were when the batch was received.
C13_FailedBatchLeavesNoTrace ==
    [][BatchFails =>
          /\ active'[batchStart.key] = batchStart.active
          /\ lastAct'[batchStart.key] = batchStart.lastAct
          /\ sessFiles'[batchStart.key] = batchStart.files
          /\ commitTimers'[batchStart.key] = batchStart.timer
          /\ handles' = batchStart.handles]_vars

\* the step in which _schedule_commit is called
Schedules == handles' # handles \/ commitTimers' # commitTimers

\* C14: _schedule_commit is called for a key only by the batch in work for
\* that key, after observe_activity has run for this batch and returned, and
\* in the step in which the batch's events are committed: persist, then
\* observe, then schedule.
C14_PersistObserveSchedule ==
    [][Schedules =>
          LET k == loc["consumer"].key
              paths == loc["consumer"].paths
          IN /\ pc["consumer"] = "p_commit" /\ pc'["consumer"] = "recv"
             /\ loc["consumer"].ret # 0
             /\ lastAct[k] = loc["consumer"].t
             /\ \A i \in 1..Len(paths) : paths[i] \in sessFiles[k]
             /\ Len(paths) > 0
             /\ pendEvents = Len(paths)
             /\ dbEvents'[k] = dbEvents[k] + Len(paths)
             /\ dbSess' = Committed("consumer")
             /\ commitTimers'[k] = Len(handles')
             /\ handles'[Len(handles')].key = k
             /\ \A j \in Keys \ {k} : commitTimers'[j] = commitTimers[j]]_vars

\* a batch went through: its events and its session are committed and the
\* key's commit timer is scheduled
C14_Witness ==
    \E k \in Keys :
        /\ pc["consumer"] = "recv"
        /\ commitTimers[k] # 0
        /\ handles[commitTimers[k]].st = "scheduled"
        /\ dbEvents[k] = 2
        /\ active[k] # 0
        /\ dbSess[active[k]].status = "active"

\* the step in which the consumer takes a batch from the queue
Receives == nBatch' = nBatch + 1

\* C15: a batch that the consumer takes up for processing belongs to an
\* active project; a batch taken while no project is active is discarded;
\* and a discarded batch has no effect: no event is added or committed, no
\* session row, no index entry, no last-activity time and no touched-file
\* set changes, no commit timer is started or cancelled, and the consumer
\* waits for the next batch.
C15_InactiveKeyBatchDiscarded ==
    [][Receives =>
          /\ pc'["consumer"] # "recv" => projActive[loc'["consumer"].key]
          /\ (\A k \in Keys : ~projActive[k]) => pc'["consumer"] = "recv"
          /\ pc'["consumer"] = "recv" =>
                /\ UNCHANGED <<dbEvents, pendEvents, dbSess, active, lastAct,
                               actOrder, sessFiles, commitVars>>
                /\ pendEvents = 0
                /\ uow'["consumer"] = EmptyUow]_vars

\* the first batch was received for a deactivated project and discarded,
\* and the consumer is back at receive
C15_Witness ==
    /\ nBatch = 1
    /\ nFail = 0
    /\ pc["consumer"] = "recv"
    /\ \E k \in Keys : ~projActive[k]
    /\ \A k \in Keys : dbEvents[k] = 0 /\ lastAct[k] = NoTime /\ active[k] = 0
    /\ handles = <<>>

\* ------------------------------------------------------------------------
\* Properties of the consumer loop step by step and of the shutdown
\* (SpecRun, SpecRunFair)
\* ------------------------------------------------------------------------

\* the consumer has received and finished n batches or more
Processed(n) ==
    /\ nTaken >= n
    /\ pc["consumer"] \in {"recv", "r_sleep"} \/ nTaken > n

\* the consumer loop has ended only after it was cancelled
LoopEndsOnlyByCancel == pc["consumer"] = "done" => stopping

\* C16: a failure while processing a batch does not end the consumer loop:
\* once a batch has failed, every batch sent is eventually received and
\* processed, unless the loop is cancelled from outside.
C16_BatchesAfterFailureProcessed ==
    \A n \in 1..MaxBatch :
        (nFail > 0 /\ nBatch >= n) ~> (Processed(n) \/ stopping)


\* C17: the handoff channel is bounded: the queue never holds more pairs
\* than the capacity it was built with; a send into a full channel drops
\* the batch.
C17_ChannelBounded == Len(queue) <= QueueMaxsize

\* the pairs that were put in the queue, in the order of the puts: those
\* received, then those still queued
Channel ==
    [i \in 1..Len(received) |-> <<received[i].key, received[i].batch>>]
        \o queue

\* C18: the consumer receives the batches of all keys in the order in
\* which they were sent, each once: a send puts its pair at the end of the
\* queue, a receive takes the pair at its front out of the queue, and so
\* what was received is always the beginning of what was sent.
C18_ReceivedInSendOrder ==
    [][\/ /\ received' = received
          /\ \/ queue' = queue
             \/ /\ Len(queue') = Len(queue) + 1
                /\ SubSeq(queue', 1, Len(queue)) = queue
       \/ /\ Len(received') = Len(received) + 1
          /\ Channel' = Channel]_vars

\* two batches of different keys were sent, the first of them is received
\* and the second is still queued
C18_Witness ==
    /\ Len(received) = 1
    /\ Len(queue) = 1
    /\ received[1].batch # <<>>
    /\ queue[1][2] # <<>>
    /\ received[1].key # queue[1][1]

\* C19: stopping the pipeline cancels every commit timer that is live at
\* that moment: after the stop, no timer that was scheduled before the stop
\* has started a commit attempt.
C19_StopCancelsLiveTimers ==
    stopping => \A h \in liveAtStop : handles[h].st # "ran"

\* C20: a cancelled consumer loop exits from wherever it is suspended: in
\* the receive, in the middle of a batch, or in the back-off; the batch it
\* had taken is finished or given up: every batch sent is in the queue or
\* was taken exactly once, nothing of the batch in work is left pending,
\* and the loop that has exited takes nothing more.
C20_CancelledLoopExits ==
    /\ stopping ~> pc["consumer"] = "done"
    /\ [](nTaken + Len(queue) = nBatch)
    /\ [](pc["consumer"] = "done" =>
             pendEvents = 0 /\ uow["consumer"] = EmptyUow)
    /\ [][pc["consumer"] = "done" =>
             pc'["consumer"] = "done" /\ nTaken' = nTaken]_vars

\* the loop was cancelled in the middle of its first batch, which neither
\* failed nor was stored, and has exited with the next batch still queued
C20_Witness ==
    /\ pc["consumer"] = "done"
    /\ nTaken = 1
    /\ nFail = 0
    /\ \A k \in Keys : dbEvents[k] = 0
    /\ queue # <<>>

\* ------------------------------------------------------------------------
\* Properties of the commit attempts (SpecAttempt)
\* ------------------------------------------------------------------------

\* the CommitRecord rows that attempt a has stored
RecordsOf(a) == {i \in 1..Len(dbCommits) : dbCommits[i].attempt = a}

\* attempt a has got its statistics and they showed no changed file
SawNoChange(a) ==
    /\ attempts[a].st \notin {"diff", "crashed"}
    /\ attempts[a].files = 0

\* C21: a commit attempt whose statistics show no changed file is skipped:
\* it asks for no commit message, runs no VCS commit, records no commit
\* entry and marks no event.
C21_NoChangeSkipsAttempt ==
    \A a \in 1..Len(attempts) :
        SawNoChange(a) =>
            /\ attempts[a].st = "skipped"
            /\ ~attempts[a].asked
            /\ attempts[a].vcs = "none"
            /\ ~attempts[a].rec
            /\ attempts[a].mark = 0
            /\ RecordsOf(a) = {}

\* an attempt was skipped while events of its key are stored and unmarked
C21_Witness ==
    \E a \in 1..Len(attempts) :
        /\ attempts[a].st = "skipped"
        /\ dbEvents[attempts[a].key] > dbMarked[attempts[a].key]

\* attempt a is over
Finished(a) ==
    attempts[a].st \in {"skipped", "crashed", "failed", "raised", "done"}

\* the step in which attempt a stores its CommitRecord together with the
\* marks of the events its UPDATE had matched
StoresBoth(a) ==
    /\ attempts[a].st = "store"
    /\ attempts[a].vcs = "ok"
    /\ attempts'[a].st = "done"
    /\ dbCommits' = Append(dbCommits, [key |-> attempts[a].key, attempt |-> a])
    /\ dbMarked' = [dbMarked EXCEPT ![attempts[a].key] =
                                        Max2(@, attempts[a].mark)]

\* C22: in a commit attempt the events of the key are marked committed and
\* the commit entry is recorded only after a successful VCS commit and only
\* together, in one step; an attempt whose VCS commit failed or in which a
\* step raised leaves no mark and no entry, and an attempt that ended
\* without either has stored exactly one entry.
C22_MarkAndRecordTogether ==
    /\ [][dbMarked' # dbMarked \/ dbCommits' # dbCommits =>
             \E a \in 1..Len(attempts) : StoresBoth(a)]_vars
    /\ [](\A a \in 1..Len(attempts) :
              /\ RecordsOf(a) # {} => attempts[a].st = "done"
              /\ attempts[a].st = "done" =>
                     attempts[a].vcs = "ok" /\ Cardinality(RecordsOf(a)) = 1
              /\ Finished(a) /\ attempts[a].vcs = "ok" =>
                     attempts[a].st \in {"done", "raised"})

\* one attempt has stored its entry and marked the events of its key, and
\* another one raised after its VCS commit had succeeded
C22_Witness ==
    \E a, b \in 1..Len(attempts) :
        /\ attempts[a].st = "done"
        /\ dbMarked[attempts[a].key] > 0
        /\ attempts[b].st = "raised"
        /\ attempts[b].vcs = "ok"
        /\ dbMarked[attempts[b].key] = 0

\* attempt a has ended in a failure: its VCS commit failed or a call raised
Failed(a) == attempts[a].st \in {"failed", "raised", "crashed"}

\* the step in which attempt a fails
Fails(a) == attempts[a].st # attempts'[a].st /\ Failed(a)'

\* C23: a failed commit attempt starts no new timer and stops nothing: the
\* step of the failure leaves the timer table, every handle and the
\* stored batches as they are, the handle that had started the attempt is
\* never live again, so that after the failure the key has a live timer
\* only from a schedule call, and no handle starts two attempts.
C23_FailureStartsNoTimer ==
    /\ [][\A a \in 1..Len(attempts) :
             Fails(a) => UNCHANGED <<commitTimers, handles, lastSched, nSched,
                                     dbEvents, now>>]_vars
    /\ [](\A a \in 1..Len(attempts) :
              /\ handles[attempts[a].h].st = "ran"
              /\ \A b \in 1..Len(attempts) :
                     attempts[a].h = attempts[b].h => a = b)
    /\ [](\A k \in Keys : \A h \in LiveHandles(k) :
              commitTimers[k] = h /\ \A a \in 1..Len(attempts) :
                                        attempts[a].h # h)

\* the attempt of one key has failed with no timer left for that key, and
\* the timer of the other key has started its attempt afterwards, which
\* has stored its commit
C23_Witness ==
    \E a, b \in 1..Len(attempts) :
        /\ a < b
        /\ Failed(a)
        /\ LiveHandles(attempts[a].key) = {}
        /\ attempts[b].key # attempts[a].key
        /\ attempts[b].st = "done"


\* ------------------------------------------------------------------------
\* Properties of the productivity metrics (SpecApi, SpecSession)
\* ------------------------------------------------------------------------

\* the increment_commit_count calls made while session sid was the indexed
\* session of its key
CommitsObserved(sid) == {i \in 1..Len(incLog) : incLog[i].sid = sid}

\* C24: a commit observed for a key with an active session counts for that
\* session: a closed session's commits_made is the number of
\* increment_commit_count calls made for it while it was active
C24_ObservedCommitsCounted ==
    \A sid \in 1..Len(dbSess) :
        dbSess[sid].status = "closed" =>
            dbSess[sid].commits_made = Cardinality(CommitsObserved(sid))


\* ------------------------------------------------------------------------
\* Properties of the registration of directories (SpecWatch)
\* ------------------------------------------------------------------------

\* a step that is a watch_project call
WatchCalled == watchRet' # watchRet

\* the call of the step left the handlers and the Observer as they were
NothingAdded == registered' = registered /\ watches' = watches

\* the call of the step scheduled one new handler for its key and stored it
NewlyRegistered(k) ==
    /\ Len(watches') = Len(watches) + 1
    /\ SubSeq(watches', 1, Len(watches)) = watches
    /\ watches'[Len(watches')] = NewHandler(k)
    /\ registered' = [registered EXCEPT ![k] = Len(watches')]

\* C25 as stated: watch_project returns False for a path that is no
\* directory and False for a key that is watched already, adding nothing in
\* both cases; it returns True only when it newly registers the key
C25_FalseWhenAlreadyWatched ==
    [][WatchCalled =>
          LET k == watchRet'.key IN
          IF registered[k] # 0 \/ ~watchRet'.isDir
             THEN ~watchRet'.value /\ NothingAdded
             ELSE watchRet'.value /\ NewlyRegistered(k)]_vars

\* C25: watch_project returns True for a key that is watched already,
\* whatever the path is, and False for a key that is not watched with a
\* path that is no directory; in both cases no handler is scheduled and the
\* watched keys stay as they are; for a key that is not watched and a
\* directory it schedules one new handler, stores it and returns True
C25_TrueWhenAlreadyWatched ==
    [][WatchCalled =>
          LET k == watchRet'.key IN
          IF registered[k] # 0 THEN watchRet'.value /\ NothingAdded
          ELSE IF ~watchRet'.isDir THEN ~watchRet'.value /\ NothingAdded
          ELSE watchRet'.value /\ NewlyRegistered(k)]_vars

\* the second call was a watch_project of a watched key with a path that is
\* no directory, and returned True
C25_Witness ==
    /\ Len(watches) = 1
    /\ watchRet.n = 2
    /\ ~watchRet.isDir
    /\ watchRet.value
    /\ registered[watchRet.key] = 1


\* C26: once unwatch_project has removed a key, no notification of that
\* key is put into a buffer any more: the buffer of a handler whose key is
\* not watched never gets a new event, it can only be flushed (the one
\* batch of the events it held at the call)
C26_NoBufferingAfterUnwatch ==
    [][\A w \in 1..Len(watches) :
          registered[watches[w].key] = 0 =>
              watches'[w].buf \in {watches[w].buf, <<>>}]_vars


\* the rows of productivity_metrics that belong to session sid
MetricsOf(sid) == {i \in 1..Len(dbMetrics) : dbMetrics[i].session_id = sid}

\* C27: every session that is closed has exactly one ProductivityMetric
\* row, and a session that is not closed has none: no sequence of closes
\* and sweeps computes the metric of a session twice
C27_OneMetricPerClosedSession ==
    \A sid \in 1..Len(dbSess) :
        Cardinality(MetricsOf(sid)) =
            IF dbSess[sid].status = "closed" THEN 1 ELSE 0


\* C28: files_touched of a closed session is the number of distinct paths
\* of the observe_activity calls from the one that created the session up
\* to its close; paths observed before the session was created (for an
\* earlier session, or in a batch that failed) are not counted
C28_FilesTouchedOfThisSession ==
    \A sid \in 1..Len(dbSess) :
        dbSess[sid].status = "closed" =>
            dbSess[sid].files_touched = Cardinality(sessPaths[sid])


\* ------------------------------------------------------------------------
\* Properties of _compute_metrics (SpecCalc)
\* ------------------------------------------------------------------------

\* the ProductivityMetric of the session has been made
Computed == calc.metric # <<>>

\* max(active_minutes / 60, 0.001) hours, in 1/60000 of an hour
HoursClaimed == IF calc.active_minutes * 1000 >= 60
                   THEN calc.active_minutes * 1000 ELSE 60

\* 100 * n / hours is rate (given in hundredths) exactly
ExactRate(rate, n) == rate * HoursClaimed = 100 * n * 60000

\* rate (given in hundredths) is a multiple of 0.01 nearest to n / hours
NearestRate(rate, n) ==
    /\ 2 * (rate * HoursClaimed - 100 * n * 60000) <= HoursClaimed
    /\ 2 * (100 * n * 60000 - rate * HoursClaimed) <= HoursClaimed

\* C29 as stated: active_minutes is never negative, files_per_hour is
\* files_touched / max(active_minutes / 60, 0.001) and commits_per_hour is
\* commits_made / max(active_minutes / 60, 0.001)
C29_RatesAreExactQuotients ==
    Computed =>
        /\ calc.active_minutes >= 0
        /\ ExactRate(calc.metric.files_per_hour, calc.files_touched)
        /\ ExactRate(calc.metric.commits_per_hour, calc.commits_made)

\* C29: active_minutes is never negative; files_per_hour and
\* commits_per_hour are the quotients files_touched / max(active_minutes /
\* 60, 0.001) and commits_made / max(active_minutes / 60, 0.001) rounded to
\* the nearest multiple of 0.01; for 10 files in 30 minutes files_per_hour
\* is exactly 20.0
C29_RatesAreRoundedQuotients ==
    Computed =>
        /\ calc.active_minutes >= 0
        /\ NearestRate(calc.metric.files_per_hour, calc.files_touched)
        /\ NearestRate(calc.metric.commits_per_hour, calc.commits_made)
        /\ calc.files_touched = 10 /\ calc.active_minutes = 30 =>
               calc.metric.files_per_hour = 2000

\* a session of 1 file and 2 commits in 7 minutes got its metric: 8.57
\* files and 17.14 commits per hour, which are not the quotients 60/7 and
\* 120/7
C29_Witness ==
    /\ Computed
    /\ calc.files_touched = 1
    /\ calc.commits_made = 2
    /\ calc.active_minutes = 7
    /\ calc.metric.files_per_hour = 857
    /\ calc.metric.commits_per_hour = 1714


\* ------------------------------------------------------------------------
\* Properties of the consumer loop between the keys (SpecRun)
\* ------------------------------------------------------------------------

\* the consumer is suspended in a database call of _process_batch for key k
AwaitsDatabase(k) ==
    /\ pc["consumer"] \in {"p_flush", "o_create", "o_select", "p_commit"}
    /\ loc["consumer"].key = k

\* C30: a database call that the consumer awaits for one key does not
\* delay another key: while the call is outstanding, a batch of another
\* key that is first in the queue can be taken from it and processed
C30_OtherKeyNotDelayed ==
    \A k \in Keys :
        (/\ AwaitsDatabase(k)
         /\ ~stopping
         /\ queue # <<>>
         /\ Head(queue)[1] # k) => ENABLED RunGet


\* ------------------------------------------------------------------------
\* Properties of the ignore filters (SpecFilter)
\* ------------------------------------------------------------------------

\* the paths that end with an extension of the ignore list or have a
\* directory of the ignore list among their components
ToBeDropped == {"a.pyc", "node_modules/m.js", ".DS_Store"}

\* the paths of the entries of a batch
PathsIn(batch) == {batch[i].file_path : i \in 1..Len(batch)}

\* C31: a notification whose path has an ignored extension or an ignored
\* directory among its components is dropped before the buffer: the _push
\* call leaves buffer and timers as they are, and no buffer and no batch
\* ever holds such a path
C31_IgnoredPathsDropped ==
    [][/\ nPush' # nPush /\ pushEntry'.file_path \in ToBeDropped =>
             /\ pushPc' = "idle"
             /\ UNCHANGED <<buffer, timers, timerRef, lastPush>>
       /\ \A h \in Handlers : PathsIn(buffer'[h]) \cap ToBeDropped = {}
       /\ \A i \in 1..Len(flushed') :
             PathsIn(flushed'[i].batch) \cap ToBeDropped = {}]_vars


\* ------------------------------------------------------------------------
\* Properties of the flush (Spec)
\* ------------------------------------------------------------------------

\* the timers whose _flush has returned
FlushesDone == {t \in 1..Len(timers) : timers[t].st = "done"}

\* C32: a _flush that finds the buffer empty does nothing: the buffer stays
\* empty and nothing is recorded as flushed or put on the queue; no empty
\* batch is ever on the queue or received from it
C32_EmptyFlushDoesNothing ==
    [][/\ \A t \in 1..Len(timers) :
             (/\ timers[t].st = "fired"
              /\ timers'[t].st # "fired"
              /\ buffer[timers[t].h] = <<>>) =>
                 UNCHANGED <<buffer, flushed, queue, received, lock>>
       /\ \A i \in 1..Len(queue') : queue'[i][2] # <<>>
       /\ \A i \in 1..Len(received') : received'[i].batch # <<>>]_vars

\* two timer expiries of one buffer have run their _flush: the first sent
\* the batch, which was received, the second found the buffer empty
C32_Witness ==
    /\ Cardinality(FlushesDone) = 2
    /\ Len(flushed) = 1
    /\ Len(received) = 1
    /\ queue = <<>>
    /\ buffer["h1"] = <<>>


\* ------------------------------------------------------------------------
\* Properties of detect_project_type (SpecDetect)
\* ------------------------------------------------------------------------

\* the types as a set
TypeSet == {ProjectTypes[i] : i \in 1..Len(ProjectTypes)}

\* the indicator of the rule is present below the path: a file or
\* directory at the indicator's path, or a direct child with the ending
IndicatorPresent(rule, entries) ==
    IF rule.glob
       THEN \E e \in entries : EndsWith(e[1], rule.ext)
       ELSE Exists(entries, rule.path)

\* the cumulative weight of the indicators of the rules that are present
RECURSIVE WeightPresent(_, _)
WeightPresent(rules, entries) ==
    IF rules = <<>> THEN 0
    ELSE (IF IndicatorPresent(Head(rules), entries) THEN Head(rules).w ELSE 0)
         + WeightPresent(Tail(rules), entries)

\* result is what the weights w (type -> weight) of a directory ask for:
\* a type of the highest weight if that weight is 4 at least, else unknown
HighestOf(result, w) ==
    IF \A t \in TypeSet : w[t] < 4
       THEN result = "unknown"
       ELSE /\ result \in TypeSet
            /\ \A t \in TypeSet : w[t] <= w[result]

\* C33 as stated: detect_project_type returns the type with the highest
\* cumulative weight of the indicator files that are present in the
\* directory, and unknown for a path that does not exist or is no
\* directory or when no type reaches 4
C33_HighestWeightOfPresent ==
    detect.result # "none" =>
        IF detect.kind # "dir" THEN detect.result = "unknown"
        ELSE HighestOf(detect.result,
                       [t \in TypeSet |->
                           WeightPresent(DetectionRules(t), detect.entries)])

\* C33: detect_project_type returns unknown for a path that does not exist
\* or is no directory; for a directory it returns a type of the highest
\* cumulative weight, or unknown when no type reaches 4, where an indicator
\* adds its weight when its last component is the name of a file or
\* directory in the top two levels of the directory or its path exists
\* below the directory; next.config.js with package.json gives nextjs
C33_HighestWeightOfNamed ==
    detect.result # "none" =>
        IF detect.kind # "dir" THEN detect.result = "unknown"
        ELSE /\ HighestOf(detect.result,
                          [t \in TypeSet |-> Score(t, detect.entries)])
             /\ detect.entries = {<<"next.config.js">>, <<"package.json">>}
                   => detect.result = "nextjs"

\* a directory with next.config.js, package.json and index.js was given:
\* nextjs has 10, node has 6, and nextjs was returned
C33_Witness ==
    /\ detect.kind = "dir"
    /\ detect.entries = {<<"next.config.js">>, <<"package.json">>, <<"index.js">>}
    /\ detect.result = "nextjs"


\* ------------------------------------------------------------------------
\* Properties of concurrent commit attempts (SpecOverlap, SpecAttempt)
\* ------------------------------------------------------------------------

\* the _execute_commit calls for key k that have started and not returned
InFlight(k) ==
    {a \in 1..Len(attempts) :
        /\ attempts[a].key = k
        /\ attempts[a].st \in {"diff", "ai", "vcs", "mark", "store"}}

\* C34: at most one commit attempt per key is in flight at any time
C34_OneAttemptInFlightPerKey ==
    \A k \in Keys : Cardinality(InFlight(k)) <= 1


\* ------------------------------------------------------------------------
\* Properties of the session index (SpecSession, SpecApi)
\* ------------------------------------------------------------------------

\* no task is inside an operation
BetweenOperations ==
    /\ pc["consumer"] = "recv"
    /\ pc["sweeper"] = "s_sleep"
    /\ pc["api"] = "a_idle"

\* session sid is persisted for key k with status active
PersistedActive(k, sid) ==
    /\ sid \in 1..Len(dbSess)
    /\ dbSess[sid].project_id = k
    /\ dbSess[sid].status = "active"

\* C35: between operations the index of active sessions and the persisted
\* sessions agree: the index maps key k to id s exactly when session s is
\* persisted for k with status active
C35_IndexAgreesWithSessions ==
    BetweenOperations =>
        \A k \in Keys :
            /\ active[k] # 0 => PersistedActive(k, active[k])
            /\ \A sid \in 1..Len(dbSess) :
                   PersistedActive(k, sid) => active[k] = sid

\* ---------------------------------------------------------------------
\* Properties of the marks set by a commit attempt (SpecAttempt)
\* ---------------------------------------------------------------------

\* the attempts that have executed their UPDATE of the FileEvents
MarkedBy == {a \in 1..Len(attempts) : attempts[a].st \in {"store", "done"}}

\* C36: a commit attempt marks only FileEvents that were persisted before
\* its VCS commit returned: the events of the key counted by its UPDATE
\* (mark) are not more than the events persisted when git commit came back
\* (seen), so an event persisted in between stays unmarked
C36_MarksOnlyEventsBeforeVcsCommit ==
    \A a \in MarkedBy : attempts[a].mark <= attempts[a].seen

\* ---------------------------------------------------------------------
\* Properties of the commit timers of deactivated projects (SpecDeactivate)
\* ---------------------------------------------------------------------

\* the step starts a commit attempt
AttemptStarted == Len(attempts') > Len(attempts)

\* C37: a commit attempt is started for a key only while the project of
\* the key is active: a timer that expires after the project has been
\* deactivated starts no attempt
C37_AttemptOnlyForActiveKey ==
    [][AttemptStarted => projActive[attempts'[Len(attempts')].key]]_vars

\* ---------------------------------------------------------------------
\* Properties of the manual close (SpecManual)
\* ---------------------------------------------------------------------

\* close_session has closed a session for the route and returned its id
ApiClosed == pc["api"] = "c_flush"

\* C38: the manual close of a session id closes the session with that id
\* and no other: the session that close_session closed for the route is
\* the one the request names; in particular the request for an id that is
\* already Closed closes nothing
C38_ClosesRequestedSession ==
    ApiClosed => loc["api"].sid = loc["api"].req

\* ---------------------------------------------------------------------
\* Properties of the quiet-period timer (SpecFlush)
\* ---------------------------------------------------------------------

\* a _flush of handler h waits for the mutex or holds it
Flushing(h) ==
    \E t \in 1..Len(timers) :
        timers[t].h = h /\ timers[t].st \in {"fired", "copied"}

\* a timer of handler h is pending
TimerPending(h) == \E t \in Waiting : timers[t].h = h

\* the entry of the i-th notification is in the buffer of handler h
Buffered(h, i) == \E j \in 1..Len(buffer[h]) : buffer[h][j].id = i

\* the entry of the i-th notification is in a batch taken by a _flush
Flushed(i) ==
    \E f \in 1..Len(flushed) :
        \E j \in 1..Len(flushed[f].batch) : flushed[f].batch[j].id = i

\* a filled buffer that no _flush is about to take has a pending timer
BufferedHasTimer ==
    \A h \in Handlers :
        buffer[h] # <<>> /\ ~Flushing(h) => TimerPending(h)

C40_WatchedKeyIsActive ==
    \A k \in Keys : registered[k] # 0 => projActive[k]

====
